---- MODULE Spec2Model ----
(***************************************************************************)
(* Conversation Memory Backfill Engine (src/lib/memory/backfill.ts) and    *)
(* the POST /api/agents/:id/memory/backfill route that calls it.           *)
(*                                                                         *)
(* One invocation of backfillAgentMemory is a sequence of steps, one per   *)
(* await of the code: the session-inventory request, each recordSession,   *)
(* getProjects, each getConversations, each recordProject and each         *)
(* recordConversation.  The synchronous code between two awaits belongs to *)
(* the step that ends at the later await.                                  *)
(*                                                                         *)
(* Encodings.  A JavaScript value is a record with a type field            *)
(* ("undefined", "null", "boolean", "number", "string", "array").  A path  *)
(* string is a sequence of one-character strings.  A number n is held as   *)
(* n * Scale, so that request.maxFiles can be a fraction.  path.* is the   *)
(* POSIX implementation of Node (path.sep = "/").                          *)
(***************************************************************************)
EXTENDS Integers, Sequences, FiniteSets, TLC

\* ------------------------------------------------------------------------
\* Bounds of the model
\* ------------------------------------------------------------------------

\* Resolution of numbers: the number n is the integer n * Scale.
Scale == 2

\* Invocations of the engine in one behaviour.
MaxRuns == 2

\* Store operations that fail in one behaviour.
MaxFaults == 1

\* ------------------------------------------------------------------------
\* Program constants
\* ------------------------------------------------------------------------

MAX_EXAMPLES == 20

DefaultMaxFiles == 5000

\* ------------------------------------------------------------------------
\* JavaScript values
\* ------------------------------------------------------------------------

Undefined == [type |-> "undefined"]

Null == [type |-> "null"]

Bool(b) == [type |-> "boolean", v |-> b]

\* The number h / Scale.
Num(h) == [type |-> "number", v |-> h]

\* The string spelled by the character sequence s.
Str(s) == [type |-> "string", v |-> s]

Arr(s) == [type |-> "array", v |-> s]

\* JavaScript truthiness of a value: undefined, null, false, 0 and the empty
\* string are falsy; arrays are truthy.
Truthy(x) ==
  CASE x.type = "undefined" -> FALSE
    [] x.type = "null" -> FALSE
    [] x.type = "boolean" -> x.v
    [] x.type = "number" -> x.v # 0
    [] x.type = "string" -> x.v # <<>>
    [] OTHER -> TRUE

Min(a, b) == IF a <= b THEN a ELSE b

\* Math.trunc of the non-negative number h / Scale, as an integer.
Trunc(h) == h \div Scale

\* ------------------------------------------------------------------------
\* Path normalizer
\* ------------------------------------------------------------------------

UpperCase ==
  <<"A", "B", "C", "D", "E", "F", "G", "H", "I", "J", "K", "L", "M",
    "N", "O", "P", "Q", "R", "S", "T", "U", "V", "W", "X", "Y", "Z">>

LowerCase ==
  <<"a", "b", "c", "d", "e", "f", "g", "h", "i", "j", "k", "l", "m",
    "n", "o", "p", "q", "r", "s", "t", "u", "v", "w", "x", "y", "z">>

IsLetter(c) ==
  \E i \in 1..26 : c = UpperCase[i] \/ c = LowerCase[i]

\* String.prototype.toLowerCase on one character.
ToLowerCase(c) ==
  IF \E i \in 1..26 : c = UpperCase[i]
  THEN LowerCase[CHOOSE i \in 1..26 : c = UpperCase[i]]
  ELSE c

IsSpace(c) == c \in {" ", "\t", "\n", "\r"}

RECURSIVE TrimStart(_)
TrimStart(s) ==
  IF s # <<>> /\ IsSpace(Head(s)) THEN TrimStart(Tail(s)) ELSE s

RECURSIVE TrimEnd(_)
TrimEnd(s) ==
  IF s # <<>> /\ IsSpace(s[Len(s)])
  THEN TrimEnd(SubSeq(s, 1, Len(s) - 1))
  ELSE s

\* String.prototype.trim
Trim(s) == TrimEnd(TrimStart(s))

\* The segments of s between occurrences of sep; cur is the segment being
\* read.
RECURSIVE SplitFrom(_, _, _)
SplitFrom(s, sep, cur) ==
  IF s = <<>> THEN <<cur>>
  ELSE IF Head(s) = sep THEN <<cur>> \o SplitFrom(Tail(s), sep, <<>>)
  ELSE SplitFrom(Tail(s), sep, Append(cur, Head(s)))

Split(s, sep) == SplitFrom(s, sep, <<>>)

RECURSIVE Join(_, _)
Join(segs, sep) ==
  IF segs = <<>> THEN <<>>
  ELSE IF Len(segs) = 1 THEN segs[1]
  ELSE segs[1] \o <<sep>> \o Join(Tail(segs), sep)

\* normalizeString of Node's path module: drops empty and "." segments and
\* resolves ".." against the segment before it; above the start, ".." is
\* kept when allowAboveRoot and dropped otherwise.
RECURSIVE NormalizeSegments(_, _, _)
NormalizeSegments(segs, res, allowAboveRoot) ==
  IF segs = <<>> THEN res
  ELSE
    LET seg == Head(segs)
        rest == Tail(segs)
    IN  IF seg = <<>> \/ seg = <<".">>
        THEN NormalizeSegments(rest, res, allowAboveRoot)
        ELSE IF seg = <<".", ".">>
        THEN IF res # <<>> /\ res[Len(res)] # <<".", ".">>
             THEN NormalizeSegments(rest, SubSeq(res, 1, Len(res) - 1),
                                    allowAboveRoot)
             ELSE IF allowAboveRoot
             THEN NormalizeSegments(rest, Append(res, seg), allowAboveRoot)
             ELSE NormalizeSegments(rest, res, allowAboveRoot)
        ELSE NormalizeSegments(rest, Append(res, seg), allowAboveRoot)

\* path.normalize (POSIX)
PathNormalize(p) ==
  IF p = <<>> THEN <<".">>
  ELSE
    LET isAbsolute == p[1] = "/"
        trailingSeparator == p[Len(p)] = "/"
        body == Join(NormalizeSegments(Split(p, "/"), <<>>, ~isAbsolute), "/")
    IN  IF body = <<>>
        THEN IF isAbsolute THEN <<"/">>
             ELSE IF trailingSeparator THEN <<".", "/">> ELSE <<".">>
        ELSE (IF isAbsolute THEN <<"/">> ELSE <<>>)
             \o body
             \o (IF trailingSeparator THEN <<"/">> ELSE <<>>)

\* s.slice(0, -1) when s is longer than one character and ends with sep.
StripTrailing(s, sep) ==
  IF Len(s) > 1 /\ s[Len(s)] = sep THEN SubSeq(s, 1, Len(s) - 1) ELSE s

\* s.replace(/\\/g, '/')
ReplaceBackslashes(s) ==
  [i \in 1..Len(s) |-> IF s[i] = "\\" THEN "/" ELSE s[i]]

\* The match of /^([A-Za-z]):\// lower-cases the drive letter.
LowerDrive(s) ==
  IF Len(s) >= 3 /\ IsLetter(s[1]) /\ s[2] = ":" /\ s[3] = "/"
  THEN <<ToLowerCase(s[1])>> \o <<":">> \o SubSeq(s, 3, Len(s))
  ELSE s

normalizePathForMatch(input) ==
  LowerDrive(
    StripTrailing(
      ReplaceBackslashes(StripTrailing(PathNormalize(Trim(input)), "/")),
      "/"))

\* ------------------------------------------------------------------------
\* Inputs of the model
\* ------------------------------------------------------------------------

\* The agent the backfill runs for, and another agent of the same host.
AgentId == "agent-1"

OtherAgentId == "agent-2"

\* Working directories written in transcripts, in the registry and in the
\* session inventory.
PathA == <<"/", "a">>

PathASlash == <<"/", "a", "/">>

PathB == <<"/", "b">>

PathBDots == <<"/", "b", "/", "c", "/", ".", ".">>

PathC == <<"/", "c">>

PathDot == <<".">>

\* One transcript file as the scanner and the extractors see it: where it
\* is, whether readFileSync succeeds, and what its extractor returns
\* (messageCount is the number of non-empty lines).
File(path, dir, readable, cwd, sessionId, messageCount) ==
  [path |-> path, dir |-> dir, readable |-> readable, cwd |-> cwd,
   sessionId |-> sessionId, messageCount |-> messageCount]

ClaudeDir == "~/.claude/projects/p"

CodexDir == "~/.codex/sessions/2025"

\* cwd of the first claude transcript.
CwdInputs == {Null, Str(<<>>), Str(PathA)}

\* Result of findJsonlFiles for each root, in walk order.  The codex root
\* also holds a file that cannot be read and one without non-empty lines.
FsInputs ==
  { [claude |-> << File("~/.claude/projects/p/1.jsonl", ClaudeDir, TRUE,
                        c1, Null, 1),
                   File("~/.claude/projects/p/2.jsonl", ClaudeDir, TRUE,
                        Str(PathASlash), Str(<<"s", "2">>), 2) >>,
     codex  |-> << File("~/.codex/sessions/2025/3.jsonl", CodexDir, FALSE,
                        Str(PathA), Null, 4),
                   File("~/.codex/sessions/2025/4.jsonl", CodexDir, TRUE,
                        Str(PathA), Null, 0),
                   File("~/.codex/sessions/2025/5.jsonl", CodexDir, TRUE,
                        Str(PathBDots), Str(<<"s", "5">>), 3) >>]
    : c1 \in CwdInputs }

\* What getAgent(agentId) || getAgentBySession(agentId) returns.
RegistryInputs ==
  { Null,
    [type |-> "object", workingDirectory |-> Str(PathASlash),
     sessions |-> <<>>, defaultWorkingDirectory |-> Undefined],
    [type |-> "object", workingDirectory |-> Undefined,
     sessions |-> << [workingDirectory |-> Str(PathDot)] >>,
     defaultWorkingDirectory |-> Str(PathB)] }

Session(id, agentId, workingDirectory) ==
  [id |-> id, agentId |-> agentId, workingDirectory |-> workingDirectory]

\* What GET /api/sessions does: the request throws ("throws"), it answers
\* with a non-success status ("notOk") or with a body that is not JSON
\* ("notJson"), or it answers with a body that holds a session list ("ok").
LiveInputs ==
  { [kind |-> "throws", sessions |-> <<>>],
    [kind |-> "ok",
     sessions |-> << Session("t1", OtherAgentId, Str(PathC)),
                     Session("t2", AgentId, Str(PathB)),
                     Session("t3", AgentId, Undefined) >>] }

SourcesInputs == { Undefined, Arr(<<"claude">>) }

DryRunInputs == { Undefined, Bool(TRUE), Bool(FALSE) }

ForceInputs == { Undefined }

MaxFilesInputs == { Undefined, Num(0), Num(Scale + 1), Num(2 * Scale) }

\* BackfillRequest, and BackfillRequestBody of the route.
BodyInputs ==
  [sources : SourcesInputs, dryRun : DryRunInputs, force : ForceInputs,
   maxFiles : MaxFilesInputs]

\* The exported function called directly, or through
\* POST /api/agents/:id/memory/backfill.
CallerInputs == { "engine", "route" }

\* ------------------------------------------------------------------------
\* The per-agent store (lib/cozo-schema-simple): three tables of rows, each
\* row a key and a value.
\* ------------------------------------------------------------------------

Row(key, val) == [key |-> key, val |-> val]

\* Mutant of Upsert: every write adds a row.
Upsert_Append(rows, key, val) == Append(rows, Row(key, val))

\* Idempotent-by-key upsert: the row with this key is replaced, or the row
\* is added.
Upsert(rows, key, val) ==
  IF \E i \in 1..Len(rows) : rows[i].key = key
  THEN [i \in 1..Len(rows) |->
          IF rows[i].key = key THEN Row(key, val) ELSE rows[i]]
  ELSE Append(rows, Row(key, val))

EmptyStore == [sessions |-> <<>>, projects |-> <<>>, conversations |-> <<>>]

recordSession(db, session) ==
  [db EXCEPT !.sessions = Upsert(@, session.session_id, session)]

recordProject(db, project) ==
  [db EXCEPT !.projects = Upsert(@, project.project_path, project)]

recordConversation(db, conversation) ==
  [db EXCEPT !.conversations = Upsert(@, conversation.jsonl_file, conversation)]

\* Rows of getProjects: project_path is the first column.
getProjects(db) == [i \in 1..Len(db.projects) |-> db.projects[i].key]

\* Rows of getConversations for one project: jsonl_file is the first column.
getConversations(db, projectPath) ==
  LET F[i \in 0..Len(db.conversations)] ==
        IF i = 0 THEN <<>>
        ELSE IF db.conversations[i].val.project_path = projectPath
             THEN Append(F[i - 1], db.conversations[i].key)
             ELSE F[i - 1]
  IN  F[Len(db.conversations)]

\* A store holding the second claude transcript under project /a, written
\* by an earlier ingestion (its message count is older than the file's).
SeededStore ==
  recordConversation(
    recordProject(EmptyStore,
      [project_path |-> PathA, project_name |-> <<"a">>,
       claude_dir |-> ClaudeDir]),
    [jsonl_file |-> "~/.claude/projects/p/2.jsonl", project_path |-> PathA,
     session_id |-> <<"s", "2">>, message_count |-> 1])

StoreInputs == { EmptyStore, SeededStore }

\* ------------------------------------------------------------------------
\* State
\* ------------------------------------------------------------------------

VARIABLES
  fs,            \* transcript files under the two roots
  registry,      \* the agent registry's entry for AgentId
  live,          \* behaviour of the session-inventory service
  store,         \* the per-agent store
  faults,        \* store operations that have failed so far
  runs,          \* invocations started so far
  pc,            \* where the invocation is: the await it is suspended at
  caller,        \* "engine" or "route"
  body,          \* the request as the caller received it
  request,       \* the BackfillRequest handed to backfillAgentMemory
  report,        \* the BackfillReport under construction
  loc,           \* the other locals of the invocation
  calls,         \* store writes issued by the invocation, in order
  storeAtStart,  \* the store when the invocation started
  response,      \* the route's HTTP response
  prev,          \* the invocation before this one
  arg,           \* argument of a helper called on its own
  ret            \* what that call returned

vars ==
  <<fs, registry, live, store, faults, runs, pc, caller, body, request,
    report, loc, calls, storeAtStart, response, prev, arg, ret>>

\* What no step of backfillAgentMemory changes.
env == <<fs, registry, live, arg, ret>>

\* ------------------------------------------------------------------------
\* backfillAgentMemory: request defaults and the empty report
\* ------------------------------------------------------------------------

\* request.sources && request.sources.length > 0 ? request.sources : [...]
SourcesOf(req) ==
  IF Truthy(req.sources) /\ Len(req.sources.v) > 0
  THEN req.sources.v
  ELSE <<"claude", "codex">>

\* request.dryRun === true
DryRunOf(req) == req.dryRun = Bool(TRUE)

\* typeof request.maxFiles === 'number' && request.maxFiles > 0
\*   ? request.maxFiles : 5000     (as a number times Scale)
MaxFilesOf(req) ==
  IF req.maxFiles.type = "number" /\ req.maxFiles.v > 0
  THEN req.maxFiles.v
  ELSE DefaultMaxFiles * Scale

emptySourceStats ==
  [discovered |-> 0, matched |-> 0, unmapped |-> 0, existing |-> 0,
   inserted |-> 0]

emptyReport(agentId, dryRun, maxFilesApplied) ==
  [success |-> TRUE,
   agent_id |-> agentId,
   mode |-> IF dryRun THEN "dry-run" ELSE "apply",
   sources |-> [claude |-> emptySourceStats, codex |-> emptySourceStats],
   total_discovered |-> 0,
   total_matched |-> 0,
   total_unmapped |-> 0,
   total_existing |-> 0,
   total_inserted |-> 0,
   max_files_applied |-> maxFilesApplied,
   truncated |-> FALSE,
   working_directories |-> <<>>,
   active_sessions_seen |-> 0,
   unmapped_examples |-> <<>>,
   existing_examples |-> <<>>,
   inserted_examples |-> <<>>]

\* Mutant of pushExample: the list is full one entry later.
pushExample_OneMore(target, value) ==
  IF Len(target) > MAX_EXAMPLES THEN target ELSE Append(target, value)

pushExample(target, value) ==
  IF Len(target) >= MAX_EXAMPLES THEN target ELSE Append(target, value)

\* Set.prototype.add on a set kept in insertion order.
SetAdd(seq, x) ==
  IF \E i \in 1..Len(seq) : seq[i] = x THEN seq ELSE Append(seq, x)

Elements(seq) == { seq[i] : i \in 1..Len(seq) }

\* ------------------------------------------------------------------------
\* discoverConversations
\* ------------------------------------------------------------------------

\* One source's files turned into conversations: a file that cannot be read
\* or has no non-empty line is skipped.
discoverConversationsFromFiles(files, source) ==
  LET parsed == SelectSeq(files,
                  LAMBDA file : file.readable /\ file.messageCount # 0)
  IN  [i \in 1..Len(parsed) |->
         [source |-> source,
          jsonlFile |-> parsed[i].path,
          dir |-> parsed[i].dir,
          cwd |-> parsed[i].cwd,
          sessionId |-> parsed[i].sessionId,
          messageCount |-> parsed[i].messageCount]]

\* Mutant of discoverConversations: a root is scanned once for each time
\* its source is named.
discoverConversations_PerEntry(sources, files) ==
  LET parts == [i \in 1..Len(sources) |->
                  IF sources[i] = "claude"
                  THEN discoverConversationsFromFiles(files.claude, "claude")
                  ELSE IF sources[i] = "codex"
                  THEN discoverConversationsFromFiles(files.codex, "codex")
                  ELSE <<>>]
      all[i \in 0..Len(sources)] ==
        IF i = 0 THEN <<>> ELSE all[i - 1] \o parts[i]
  IN  all[Len(sources)]

discoverConversations(sources, files) ==
  (IF "claude" \in Elements(sources)
   THEN discoverConversationsFromFiles(files.claude, "claude") ELSE <<>>)
  \o
  (IF "codex" \in Elements(sources)
   THEN discoverConversationsFromFiles(files.codex, "codex") ELSE <<>>)

\* ------------------------------------------------------------------------
\* fetchWorkingDirectoriesForAgent
\* ------------------------------------------------------------------------

\* The directories taken from the registry, before the inventory request.
RegistryDirectories(agent) ==
  IF ~(agent.type = "object") THEN <<>>
  ELSE
    LET sessionWd == IF Len(agent.sessions) > 0
                     THEN agent.sessions[1].workingDirectory
                     ELSE Undefined
        baseWd == IF Truthy(agent.workingDirectory)
                  THEN agent.workingDirectory ELSE sessionWd
        prefWd == agent.defaultWorkingDirectory
        withBase == IF Truthy(baseWd)
                    THEN SetAdd(<<>>, normalizePathForMatch(baseWd.v))
                    ELSE <<>>
    IN  IF Truthy(prefWd)
        THEN SetAdd(withBase, normalizePathForMatch(prefWd.v))
        ELSE withBase

\* An entry of the session list that is null: reading its agentId throws,
\* and the catch of line 397 ends the loop.
Malformed(session) == session = Null

\* Index of the first entry at or after i that belongs to agentId or is
\* malformed, or Len(sessions) + 1.
RECURSIVE NextOwnSession(_, _, _)
NextOwnSession(sessions, agentId, i) ==
  IF i > Len(sessions) THEN i
  ELSE IF Malformed(sessions[i]) THEN i
  ELSE IF sessions[i].agentId = agentId THEN i
  ELSE NextOwnSession(sessions, agentId, i + 1)

\* The loop body up to the write: the session is counted and its working
\* directory, if any, joins the set.
SeeSession(l, session) ==
  [l EXCEPT
     !.activeSessionsSeen = @ + 1,
     !.workingDirectories =
        IF Truthy(session.workingDirectory)
        THEN SetAdd(@, normalizePathForMatch(session.workingDirectory.v))
        ELSE @]

\* Mutant of SeeAllSessions: without writes to make, the loop is not run.
SeeAllSessions_Skipped(l, sessions, agentId, i) == l

\* The whole loop when no write is awaited (applyWrites is false).
RECURSIVE SeeAllSessions(_, _, _, _)
SeeAllSessions(l, sessions, agentId, i) ==
  LET j == NextOwnSession(sessions, agentId, i)
  IN  IF j > Len(sessions) THEN l
      ELSE IF Malformed(sessions[j]) THEN l
      ELSE SeeAllSessions(SeeSession(l, sessions[j]), sessions, agentId, j + 1)

\* ------------------------------------------------------------------------
\* backfillAgentMemory: counting, truncation, classification
\* ------------------------------------------------------------------------

\* report.sources[source][field]++
Bump(rep, source, field) ==
  [rep EXCEPT !.sources[source][field] = @ + 1]

\* Every discovered conversation is counted for its source, before any
\* truncation.
\* The loop of lines 476-478 over discoveredAll[lo..hi], in order: the
\* report the first half of the range leaves is the one the second half
\* starts from.
RECURSIVE CountDiscoveredRange(_, _, _, _)
CountDiscoveredRange(rep, discoveredAll, lo, hi) ==
  IF lo > hi THEN rep
  ELSE IF lo = hi THEN Bump(rep, discoveredAll[lo].source, "discovered")
  ELSE LET mid == (lo + hi) \div 2
       IN  CHOOSE after \in
             { CountDiscoveredRange(half, discoveredAll, mid + 1, hi) :
                 half \in { CountDiscoveredRange(rep, discoveredAll,
                                                 lo, mid) } }
             : TRUE

CountDiscovered(rep, discoveredAll) ==
  [CountDiscoveredRange(rep, discoveredAll, 1, Len(discoveredAll))
     EXCEPT !.total_discovered = Len(discoveredAll)]

\* Mutant of ExceedsMaxFiles: >= in place of >.
ExceedsMaxFiles_Geq(discoveredAll, maxFiles) ==
  Len(discoveredAll) * Scale >= maxFiles

\* discovered.length > maxFiles
ExceedsMaxFiles(discoveredAll, maxFiles) ==
  Len(discoveredAll) * Scale > maxFiles

\* discovered.slice(0, maxFiles): slice truncates its bound to an integer.
Slice(discoveredAll, maxFiles) ==
  SubSeq(discoveredAll, 1, Min(Len(discoveredAll), Trunc(maxFiles)))

\* item.cwd ? normalizePathForMatch(item.cwd) : null
NormalizedCwd(item) ==
  IF Truthy(item.cwd) THEN Str(normalizePathForMatch(item.cwd.v)) ELSE Null

\* Mutant of IsUnmapped: the raw cwd is looked up, not the normalized one.
IsUnmapped_RawCwd(item, workingDirectorySet) ==
  ~Truthy(item.cwd) \/ ~(item.cwd.v \in workingDirectorySet)

\* !normalizedCwd || !workingDirectorySet.has(normalizedCwd)
IsUnmapped(item, workingDirectorySet) ==
  LET normalizedCwd == NormalizedCwd(item)
  IN  ~Truthy(normalizedCwd) \/ ~(normalizedCwd.v \in workingDirectorySet)

\* Mutant of ClassifyItem: total_unmapped is not incremented.
ClassifyItem_NoTotalUnmapped(st, item, workingDirectorySet) ==
  IF IsUnmapped(item, workingDirectorySet)
  THEN [st EXCEPT
          !.report = [Bump(@, item.source, "unmapped") EXCEPT
                        !.unmapped_examples = pushExample(@, item.jsonlFile)]]
  ELSE [st EXCEPT
          !.report = [Bump(@, item.source, "matched") EXCEPT
                        !.total_matched = @ + 1],
          !.matched = Append(@, [item EXCEPT !.cwd = NormalizedCwd(item)])]

\* Mutant of ClassifyItem: the matched conversation keeps its raw cwd.
ClassifyItem_RawCwd(st, item, workingDirectorySet) ==
  IF IsUnmapped(item, workingDirectorySet)
  THEN [st EXCEPT
          !.report = [Bump(@, item.source, "unmapped") EXCEPT
                        !.total_unmapped = @ + 1,
                        !.unmapped_examples = pushExample(@, item.jsonlFile)]]
  ELSE [st EXCEPT
          !.report = [Bump(@, item.source, "matched") EXCEPT
                        !.total_matched = @ + 1],
          !.matched = Append(@, item)]

\* One pass of the first loop: st holds the report and the matched list.
ClassifyItem(st, item, workingDirectorySet) ==
  IF IsUnmapped(item, workingDirectorySet)
  THEN [st EXCEPT
          !.report = [Bump(@, item.source, "unmapped") EXCEPT
                        !.total_unmapped = @ + 1,
                        !.unmapped_examples = pushExample(@, item.jsonlFile)]]
  ELSE [st EXCEPT
          !.report = [Bump(@, item.source, "matched") EXCEPT
                        !.total_matched = @ + 1],
          !.matched = Append(@, [item EXCEPT !.cwd = NormalizedCwd(item)])]

\* The first loop over discovered[lo..hi], in order: the state the first
\* half of the range leaves is the one the second half starts from.
RECURSIVE ClassifyRange(_, _, _, _, _)
ClassifyRange(st, discovered, workingDirectorySet, lo, hi) ==
  IF lo > hi THEN st
  ELSE IF lo = hi
  THEN ClassifyItem(st, discovered[lo], workingDirectorySet)
  ELSE LET mid == (lo + hi) \div 2
       IN  CHOOSE after \in
             { ClassifyRange(half, discovered, workingDirectorySet,
                             mid + 1, hi) :
                 half \in { ClassifyRange(st, discovered,
                                          workingDirectorySet, lo, mid) } }
             : TRUE

Classify(rep, discovered, workingDirectorySet) ==
  ClassifyRange([report |-> rep, matched |-> <<>>], discovered,
                workingDirectorySet, 1, Len(discovered))

\* Lines 473-501: the report after the working directories are known, and
\* the matched conversations.
AfterResolve(rep, l, req, files) ==
  LET withDirs == [rep EXCEPT
                     !.active_sessions_seen = l.activeSessionsSeen,
                     !.working_directories = l.workingDirectories]
      discoveredAll == discoverConversations(SourcesOf(req), files)
      counted == CountDiscovered(withDirs, discoveredAll)
      truncated == ExceedsMaxFiles(discoveredAll, MaxFilesOf(req))
      discovered == IF truncated
                    THEN Slice(discoveredAll, MaxFilesOf(req))
                    ELSE discoveredAll
  IN  Classify([counted EXCEPT !.truncated = truncated], discovered,
               Elements(withDirs.working_directories))

\* ------------------------------------------------------------------------
\* backfillAgentMemory: the second loop
\* ------------------------------------------------------------------------

CountExisting(rep, item) ==
  [Bump(rep, item.source, "existing") EXCEPT
     !.total_existing = @ + 1,
     !.existing_examples = pushExample(@, item.jsonlFile)]

\* Mutant of CountInserted: the total is not incremented.
CountInserted_NoTotal(rep, item) ==
  [Bump(rep, item.source, "inserted") EXCEPT
     !.inserted_examples = pushExample(@, item.jsonlFile)]

CountInserted(rep, item) ==
  [Bump(rep, item.source, "inserted") EXCEPT
     !.total_inserted = @ + 1,
     !.inserted_examples = pushExample(@, item.jsonlFile)]

\* Mutant of NeedsWrite: the dry-run flag is read the wrong way round.
NeedsWrite_Inverted(item, dryRun) == dryRun /\ Truthy(item.cwd)

\* Mutant of NeedsWrite: the dry-run flag is not read.
NeedsWrite_IgnoresDryRun(item, dryRun) == Truthy(item.cwd)

\* !dryRun && item.cwd
NeedsWrite(item, dryRun) == ~dryRun /\ Truthy(item.cwd)

\* The conversation at matched[k] is not in the store and is to be written:
\* the second loop awaits recordProject there.
AwaitsWrite(matched, k, existingFiles, dryRun) ==
  /\ matched[k].jsonlFile \notin existingFiles
  /\ NeedsWrite(matched[k], dryRun)

\* Index of the first conversation at or after i whose write is awaited, or
\* Len(matched) + 1.
NextWrite(matched, i, existingFiles, dryRun) ==
  LET S == { k \in i..Len(matched) :
               AwaitsWrite(matched, k, existingFiles, dryRun) }
  IN  IF S = {} THEN Len(matched) + 1
      ELSE CHOOSE k \in S : \A j \in S : k <= j

\* Mutant of CountItem: what the store holds is counted as inserted too.
CountItem_AlwaysInserted(rep, item, existingFiles) == CountInserted(rep, item)

\* One pass of the second loop that awaits nothing: the conversation is
\* counted as existing, or (dry-run, or no cwd) as inserted.
CountItem(rep, item, existingFiles) ==
  IF item.jsonlFile \in existingFiles
  THEN CountExisting(rep, item)
  ELSE CountInserted(rep, item)

\* Such passes for matched[lo..hi], in order: the report the first half of
\* the range leaves is the one the second half starts from.
RECURSIVE CountRange(_, _, _, _, _)
CountRange(rep, matched, existingFiles, lo, hi) ==
  IF lo > hi THEN rep
  ELSE IF lo = hi THEN CountItem(rep, matched[lo], existingFiles)
  ELSE LET mid == (lo + hi) \div 2
       IN  CHOOSE after \in
             { CountRange(half, matched, existingFiles, mid + 1, hi) :
                 half \in { CountRange(rep, matched, existingFiles,
                                       lo, mid) } }
             : TRUE

\* Mutant of AdvanceMatched: the existing-files set is not consulted.
AdvanceMatched_NoDedup(rep, matched, i, existingFiles, dryRun) ==
  LET j == NextWrite(matched, i, {}, dryRun)
  IN  [report |-> CountRange(rep, matched, {}, i, j - 1), matchIdx |-> j]

\* The second loop from matched[i] up to the next await: the report so far,
\* and the index of the conversation whose recordProject is awaited
\* (Len(matched) + 1 when the loop has ended).
AdvanceMatched(rep, matched, i, existingFiles, dryRun) ==
  LET j == NextWrite(matched, i, existingFiles, dryRun)
  IN  [report |-> CountRange(rep, matched, existingFiles, i, j - 1),
       matchIdx |-> j]

\* Basename of a path without trailing separator.
Basename(p) ==
  LET segs == Split(p, "/") IN segs[Len(segs)]

ProjectRecord(item) ==
  [project_path |-> item.cwd.v,
   project_name |-> IF Basename(item.cwd.v) # <<>>
                    THEN Basename(item.cwd.v) ELSE <<"unknown">>,
   claude_dir |-> item.dir]

ConversationRecord(item) ==
  [jsonl_file |-> item.jsonlFile,
   project_path |-> item.cwd.v,
   session_id |-> IF Truthy(item.sessionId)
                  THEN item.sessionId.v ELSE <<"unknown">>,
   message_count |-> item.messageCount]

SessionRecord(session, agentId) ==
  [session_id |-> session.id,
   agent_id |-> agentId,
   working_directory |-> session.workingDirectory]

\* ------------------------------------------------------------------------
\* Initial state
\* ------------------------------------------------------------------------

EmptyLoc ==
  [workingDirectories |-> <<>>,   \* the Set of fetchWorkingDirectoriesForAgent
   activeSessionsSeen |-> 0,
   sessIdx |-> 0,                 \* session whose recordSession is awaited
   matched |-> <<>>,
   projects |-> <<>>,             \* rows of getProjects
   projIdx |-> 0,                 \* project whose getConversations is awaited
   existingFiles |-> {},
   matchIdx |-> 0]                \* matched conversation being written

EmptyRequest ==
  [sources |-> Undefined, dryRun |-> Undefined, force |-> Undefined,
   maxFiles |-> Undefined]

NoResponse == [status |-> 0]

\* No helper has been called on its own.
NoCall == [type |-> "none"]

Init ==
  /\ fs \in FsInputs
  /\ registry \in RegistryInputs
  /\ live \in LiveInputs
  /\ store \in StoreInputs
  /\ faults = 0
  /\ runs = 0
  /\ pc = "idle"
  /\ caller = "engine"
  /\ body = EmptyRequest
  /\ request = EmptyRequest
  /\ report = emptyReport(AgentId, FALSE, DefaultMaxFiles * Scale)
  /\ loc = EmptyLoc
  /\ calls = <<>>
  /\ storeAtStart = store
  /\ response = NoResponse
  /\ prev = [pc |-> "none", request |-> EmptyRequest,
             report |-> emptyReport(AgentId, FALSE, DefaultMaxFiles * Scale),
             storeAtStart |-> store]
  /\ arg = NoCall
  /\ ret = NoCall

\* ------------------------------------------------------------------------
\* Steps of one invocation
\* ------------------------------------------------------------------------

\* One store write as issued: the operation, the session or transcript it
\* is for, and the project path it carries.
Call(op, id, path) == [op |-> op, id |-> id, path |-> path]

\* Mutant of RouteRequest: dryRun is taken as the memory-init route takes
\* it, true only when the body says true.
RouteRequest_StrictTrue(b) ==
  [dryRun |-> Bool(b.dryRun = Bool(TRUE)),
   force |-> Bool(b.force = Bool(TRUE)),
   sources |-> b.sources,
   maxFiles |-> b.maxFiles]

\* The body as the route hands it to the engine (route.ts lines 32-37).
RouteRequest(b) ==
  [dryRun |-> Bool(b.dryRun # Bool(FALSE)),
   force |-> Bool(b.force = Bool(TRUE)),
   sources |-> b.sources,
   maxFiles |-> b.maxFiles]

\* What the caller of the engine answers when the engine returns rep.
Returned(rep) ==
  IF caller = "route" THEN [status |-> 200, body |-> rep]
  ELSE IF caller = "memory" THEN [status |-> 200, report |-> rep]
  ELSE NoResponse

\* What it answers when the engine rejects.
Rejected ==
  IF caller \in {"route", "memory"} THEN [status |-> 500, success |-> FALSE]
  ELSE NoResponse

\* fetchWorkingDirectoriesForAgent has returned with locals l: lines 473-501
\* run and getProjects is called.
Resolved(l) ==
  LET st == AfterResolve(report, l, request, fs)
  IN  /\ report' = st.report
      /\ loc' = [l EXCEPT !.matched = st.matched]
      /\ pc' = "getProjects"
      /\ response' = response

\* Mutant of Proceed: with force, the files already in the store are not
\* looked at.
Proceed_ForceRewrites(l, rep, i) ==
  LET a == AdvanceMatched(rep, l.matched, i,
                          IF request.force = Bool(TRUE)
                          THEN {} ELSE l.existingFiles,
                          DryRunOf(request))
  IN  /\ report' = a.report
      /\ loc' = [l EXCEPT !.matchIdx = a.matchIdx]
      /\ IF a.matchIdx > Len(l.matched)
         THEN /\ pc' = "done"
              /\ response' = Returned(a.report)
              /\ calls' = calls
         ELSE /\ pc' = "recordProject"
              /\ response' = response
              /\ calls' = Append(calls,
                            Call("recordProject",
                                 l.matched[a.matchIdx].jsonlFile,
                                 ProjectRecord(l.matched[a.matchIdx])
                                   .project_path))

\* The second loop runs from matched[i] with report rep, up to the call of
\* recordProject or to the return of the report.
Proceed(l, rep, i) ==
  LET a == AdvanceMatched(rep, l.matched, i, l.existingFiles,
                          DryRunOf(request))
  IN  /\ report' = a.report
      /\ loc' = [l EXCEPT !.matchIdx = a.matchIdx]
      /\ IF a.matchIdx > Len(l.matched)
         THEN /\ pc' = "done"
              /\ response' = Returned(a.report)
              /\ calls' = calls
         ELSE /\ pc' = "recordProject"
              /\ response' = response
              /\ calls' = Append(calls,
                            Call("recordProject",
                                 l.matched[a.matchIdx].jsonlFile,
                                 ProjectRecord(l.matched[a.matchIdx])
                                   .project_path))

\* backfillAgentMemory is called, directly or by the route, and runs up to
\* the session-inventory request.  A second invocation repeats the sources,
\* maxFiles and force of the first.
Invoke(c, b) ==
  /\ pc \in {"idle", "done", "rejected"}
  /\ runs < MaxRuns
  /\ runs > 0 =>
       /\ c = caller
       /\ b.sources = body.sources
       /\ b.maxFiles = body.maxFiles
       /\ b.force = body.force
  /\ LET req == IF c = "route" THEN RouteRequest(b) ELSE b
     IN  /\ request' = req
         /\ report' = emptyReport(AgentId, DryRunOf(req), MaxFilesOf(req))
  /\ caller' = c
  /\ body' = b
  /\ loc' = [EmptyLoc EXCEPT
               !.workingDirectories = RegistryDirectories(registry)]
  /\ pc' = "fetch"
  /\ runs' = runs + 1
  /\ calls' = <<>>
  /\ storeAtStart' = store
  /\ response' = NoResponse
  /\ prev' = [pc |-> pc, request |-> request, report |-> report,
              storeAtStart |-> storeAtStart]
  /\ UNCHANGED <<env, store, faults>>

\* The inventory request settles.  With a session list, the loop runs up to
\* the first recordSession (apply), or to its end or to a malformed entry
\* (dry-run); a failed request ends in the return of line 377 or in the
\* catch of line 397.
FetchResponds ==
  /\ pc = "fetch"
  /\ IF live.kind = "ok"
     THEN IF DryRunOf(request)
          THEN /\ Resolved(SeeAllSessions(loc, live.sessions, AgentId, 1))
               /\ calls' = calls
          ELSE LET j == NextOwnSession(live.sessions, AgentId, 1)
               IN  IF j > Len(live.sessions) \/ Malformed(live.sessions[j])
                   THEN Resolved(loc) /\ calls' = calls
                   ELSE /\ loc' = [SeeSession(loc, live.sessions[j])
                                     EXCEPT !.sessIdx = j]
                        /\ pc' = "recordSession"
                        /\ calls' = Append(calls,
                                      Call("recordSession",
                                           live.sessions[j].id, <<>>))
                        /\ UNCHANGED <<report, response>>
     ELSE Resolved(loc) /\ calls' = calls
  /\ UNCHANGED <<env, store, faults, runs, caller, body, request,
                 storeAtStart, prev>>

RecordSessionReturns ==
  /\ pc = "recordSession"
  /\ store' = recordSession(store,
                SessionRecord(live.sessions[loc.sessIdx], AgentId))
  /\ LET j == NextOwnSession(live.sessions, AgentId, loc.sessIdx + 1)
     IN  IF j > Len(live.sessions) \/ Malformed(live.sessions[j])
         THEN Resolved(loc) /\ calls' = calls
         ELSE /\ loc' = [SeeSession(loc, live.sessions[j])
                           EXCEPT !.sessIdx = j]
              /\ calls' = Append(calls,
                            Call("recordSession", live.sessions[j].id, <<>>))
              /\ UNCHANGED <<pc, report, response>>
  /\ UNCHANGED <<env, faults, runs, caller, body, request, storeAtStart,
                 prev>>

GetProjectsReturns ==
  /\ pc = "getProjects"
  /\ LET rows == getProjects(store)
     IN  IF rows = <<>>
         THEN Proceed(loc, report, 1)
         ELSE /\ loc' = [loc EXCEPT !.projects = rows, !.projIdx = 1]
              /\ pc' = "getConversations"
              /\ UNCHANGED <<report, response, calls>>
  /\ UNCHANGED <<env, store, faults, runs, caller, body, request,
                 storeAtStart, prev>>

GetConversationsReturns ==
  /\ pc = "getConversations"
  /\ LET rows == getConversations(store, loc.projects[loc.projIdx])
         l == [loc EXCEPT
                 !.existingFiles =
                    @ \cup { rows[i] : i \in { k \in 1..Len(rows) :
                                                 rows[k] # "" } }]
     IN  IF loc.projIdx = Len(loc.projects)
         THEN Proceed(l, report, 1)
         ELSE /\ loc' = [l EXCEPT !.projIdx = @ + 1]
              /\ UNCHANGED <<pc, report, response, calls>>
  /\ UNCHANGED <<env, store, faults, runs, caller, body, request,
                 storeAtStart, prev>>

RecordProjectReturns ==
  /\ pc = "recordProject"
  /\ store' = recordProject(store, ProjectRecord(loc.matched[loc.matchIdx]))
  /\ pc' = "recordConversation"
  /\ calls' = Append(calls,
                Call("recordConversation",
                     ConversationRecord(loc.matched[loc.matchIdx]).jsonl_file,
                     ConversationRecord(loc.matched[loc.matchIdx])
                       .project_path))
  /\ UNCHANGED <<env, faults, runs, caller, body, request, report, loc,
                 storeAtStart, response, prev>>

RecordConversationReturns ==
  /\ pc = "recordConversation"
  /\ store' = recordConversation(store,
                ConversationRecord(loc.matched[loc.matchIdx]))
  /\ Proceed(loc, CountInserted(report, loc.matched[loc.matchIdx]),
             loc.matchIdx + 1)
  /\ UNCHANGED <<env, faults, runs, caller, body, request, storeAtStart,
                 prev>>

\* A store operation throws.  A recordSession failure is caught by the
\* try of fetchWorkingDirectoriesForAgent, which then returns what it has;
\* any other failure rejects the invocation.
StoreFails ==
  /\ pc \in {"recordSession", "getProjects", "getConversations",
             "recordProject", "recordConversation"}
  /\ faults < MaxFaults
  /\ faults' = faults + 1
  /\ IF pc = "recordSession"
     THEN Resolved(loc)
     ELSE /\ pc' = "rejected"
          /\ response' = Rejected
          /\ UNCHANGED <<report, loc>>
  /\ UNCHANGED <<env, store, runs, caller, body, request, calls,
                 storeAtStart, prev>>

Next ==
  \/ \E c \in CallerInputs, b \in BodyInputs : Invoke(c, b)
  \/ FetchResponds
  \/ RecordSessionReturns
  \/ GetProjectsReturns
  \/ GetConversationsReturns
  \/ RecordProjectReturns
  \/ RecordConversationReturns
  \/ StoreFails

Spec == Init /\ [][Next]_vars

\* ------------------------------------------------------------------------
\* Properties
\* ------------------------------------------------------------------------

SourceNames == {"claude", "codex"}

\* The invocation has returned its report.
Done == pc = "done"

\* The invocation before this one returned its report.
PrevDone == prev.pc = "done"

\* The conversations the first loop goes through: the discovered ones,
\* cut to maxFiles.
Processed ==
  LET discoveredAll == discoverConversations(SourcesOf(request), fs)
  IN  IF ExceedsMaxFiles(discoveredAll, MaxFilesOf(request))
      THEN Slice(discoveredAll, MaxFilesOf(request))
      ELSE discoveredAll

\* Transcript paths of the conversation records of a store.
StoredFiles(db) ==
  { db.conversations[i].key : i \in 1..Len(db.conversations) }

MatchedFiles == { loc.matched[i].jsonlFile : i \in 1..Len(loc.matched) }

CallsOf(op) == { i \in 1..Len(calls) : calls[i].op = op }

\* C1: in every returned report, for each source matched = existing +
\* inserted, and total_matched = total_existing + total_inserted.
C1_MatchedSplits ==
  Done =>
    /\ \A s \in SourceNames :
         report.sources[s].matched
           = report.sources[s].existing + report.sources[s].inserted
    /\ report.total_matched = report.total_existing + report.total_inserted

C1_Witness ==
  /\ Done
  /\ report.truncated
  /\ report.total_existing > 0
  /\ report.total_inserted > 0

\* C2: an apply run that follows a completed apply run of the same request,
\* with the same resolved working directories and a store changed only by
\* the first run, inserts nothing and counts as existing everything the
\* first run counted as existing or inserted.
C2_Rerun ==
  /\ Done
  /\ PrevDone
  /\ report.mode = "apply"
  /\ prev.report.mode = "apply"
  /\ Elements(report.working_directories)
       = Elements(prev.report.working_directories)

C2_Idempotent ==
  C2_Rerun =>
    /\ report.total_inserted = 0
    /\ report.total_existing
         = prev.report.total_existing + prev.report.total_inserted

C2_Witness ==
  /\ C2_Rerun
  /\ prev.report.total_inserted > 1
  /\ prev.report.total_existing > 0

\* C3: a dry-run invocation issues no recordSession, recordProject or
\* recordConversation and leaves the store as it found it, and its
\* total_inserted is the number of matched conversations whose transcript
\* path is not in the store.
C3_DryRunWritesNothing ==
  (runs > 0 /\ DryRunOf(request)) =>
    /\ calls = <<>>
    /\ store = storeAtStart
    /\ Done =>
         report.total_inserted
           = Cardinality({ i \in 1..Len(loc.matched) :
                             loc.matched[i].jsonlFile
                               \notin StoredFiles(store) })

C3_Witness ==
  /\ Done
  /\ DryRunOf(request)
  /\ report.active_sessions_seen > 0
  /\ report.total_inserted > 0
  /\ report.total_existing > 0

\* C4 as claimed: a request that omits dryRun makes the engine run in
\* dry-run mode, without store write.
C4_EngineDefaultsToDryRun ==
  (runs > 0 /\ request.dryRun = Undefined) =>
    /\ report.mode = "dry-run"
    /\ calls = <<>>

\* C4 as amended: a body that omits dryRun makes the backfill route run the
\* engine in dry-run mode, without store write; the engine itself takes a
\* request that omits dryRun as an apply run.
C4_RouteDefaultsToDryRun ==
  /\ (runs > 0 /\ caller = "route" /\ body.dryRun = Undefined) =>
       /\ report.mode = "dry-run"
       /\ calls = <<>>
       /\ store = storeAtStart
  /\ (runs > 0 /\ request.dryRun = Undefined) => report.mode = "apply"

C4_Witness ==
  /\ Done
  /\ caller = "route"
  /\ body.dryRun = Undefined
  /\ report.active_sessions_seen > 0
  /\ report.total_inserted > 0

\* C5: in every returned report each total is the sum of the two sources'
\* counters, and discovered counts what was found before truncation.
C5_TotalsAreSums ==
  Done =>
    /\ report.total_discovered
         = report.sources.claude.discovered + report.sources.codex.discovered
    /\ report.total_matched
         = report.sources.claude.matched + report.sources.codex.matched
    /\ report.total_unmapped
         = report.sources.claude.unmapped + report.sources.codex.unmapped
    /\ report.total_existing
         = report.sources.claude.existing + report.sources.codex.existing
    /\ report.total_inserted
         = report.sources.claude.inserted + report.sources.codex.inserted
    /\ report.total_discovered
         = Len(discoverConversations(SourcesOf(request), fs))

C5_Witness ==
  /\ Done
  /\ report.truncated
  /\ report.sources.claude.discovered > 0
  /\ report.sources.codex.discovered > 0
  /\ report.total_unmapped > 0
  /\ report.total_existing > 0

\* max_files_applied is request.maxFiles when that is a positive number and
\* 5000 otherwise.
MaxFilesApplied ==
  report.max_files_applied
    = IF request.maxFiles.type = "number" /\ request.maxFiles.v > 0
      THEN request.maxFiles.v
      ELSE DefaultMaxFiles * Scale

\* truncated holds exactly when more was discovered than max_files_applied,
\* and total_discovered is the count before truncation.
TruncatedIffExceeds ==
  /\ report.truncated
       <=> (report.total_discovered * Scale > report.max_files_applied)
  /\ report.total_discovered
       = Len(discoverConversations(SourcesOf(request), fs))

\* Per source, discovered >= matched + unmapped, with equality when the
\* report is not truncated.
DiscoveredCoversClassified ==
  \A s \in SourceNames :
    /\ report.sources[s].discovered
         >= report.sources[s].matched + report.sources[s].unmapped
    /\ ~report.truncated =>
         report.sources[s].discovered
           = report.sources[s].matched + report.sources[s].unmapped

\* C6 as claimed: total_matched + total_unmapped is the minimum of
\* total_discovered and max_files_applied.
C6_ProcessedIsMin ==
  Done =>
    /\ MaxFilesApplied
    /\ TruncatedIffExceeds
    /\ DiscoveredCoversClassified
    /\ (report.total_matched + report.total_unmapped) * Scale
         = Min(report.total_discovered * Scale, report.max_files_applied)

\* C6 as amended: total_matched + total_unmapped is the minimum of
\* total_discovered and max_files_applied rounded down to an integer.
C6_ProcessedIsMinOfFloor ==
  Done =>
    /\ MaxFilesApplied
    /\ TruncatedIffExceeds
    /\ DiscoveredCoversClassified
    /\ report.total_matched + report.total_unmapped
         = Min(report.total_discovered, Trunc(report.max_files_applied))

C6_Witness ==
  /\ Done
  /\ report.truncated
  /\ report.max_files_applied % Scale # 0
  /\ report.total_matched > 0

\* Conversation c is classified as the claim of C7 says: matched exactly
\* when its cwd is not null and its normalized form is a resolved working
\* directory.
MatchedIffNonNull(c) ==
  (c.jsonlFile \in MatchedFiles)
    <=> /\ c.cwd # Null
        /\ normalizePathForMatch(c.cwd.v)
             \in Elements(report.working_directories)

\* The same, with the empty cwd treated like the null one.
MatchedIffNonEmpty(c) ==
  (c.jsonlFile \in MatchedFiles)
    <=> /\ c.cwd # Null
        /\ c.cwd.v # <<>>
        /\ normalizePathForMatch(c.cwd.v)
             \in Elements(report.working_directories)

\* A conversation that is not matched never reaches the second loop: it is
\* in neither example list of that loop and no write is issued for it.
NeverReachesSecondLoop(c) ==
  /\ c.jsonlFile \notin Elements(report.existing_examples)
  /\ c.jsonlFile \notin Elements(report.inserted_examples)
  /\ \A k \in 1..Len(calls) : calls[k].id # c.jsonlFile

\* The counters of the first loop count the matched conversations and the
\* others.
FirstLoopCounts ==
  /\ report.total_matched = Cardinality(MatchedFiles)
  /\ report.total_unmapped = Len(Processed) - Cardinality(MatchedFiles)

\* C7 as claimed: a processed conversation is matched iff its cwd is
\* non-null and normalizes to a resolved working directory, else unmapped;
\* one with null cwd is unmapped and never reaches the second loop.
C7_MatchedIffCwdNonNull ==
  Done =>
    /\ FirstLoopCounts
    /\ \A i \in 1..Len(Processed) :
         /\ MatchedIffNonNull(Processed[i])
         /\ Processed[i].cwd = Null =>
              /\ Processed[i].jsonlFile \notin MatchedFiles
              /\ NeverReachesSecondLoop(Processed[i])

\* C7 as amended: a processed conversation is matched iff its cwd is
\* non-null, non-empty and normalizes to a resolved working directory, else
\* unmapped; one with null or empty cwd is unmapped and never reaches the
\* second loop.
C7_MatchedIffCwdNonEmpty ==
  Done =>
    /\ FirstLoopCounts
    /\ \A i \in 1..Len(Processed) :
         /\ MatchedIffNonEmpty(Processed[i])
         /\ ~Truthy(Processed[i].cwd) =>
              /\ Processed[i].jsonlFile \notin MatchedFiles
              /\ NeverReachesSecondLoop(Processed[i])

C7_Witness ==
  /\ Done
  /\ PathDot \in Elements(report.working_directories)
  /\ \E i \in 1..Len(Processed) : Processed[i].cwd = Str(<<>>)
  /\ \E i \in 1..Len(Processed) :
       /\ Processed[i].jsonlFile \in MatchedFiles
       /\ Processed[i].cwd.v # normalizePathForMatch(Processed[i].cwd.v)
  /\ report.total_inserted > 0

\* C8: in an apply run no recordProject or recordConversation is issued
\* for a conversation whose transcript the lookup found in the store, no
\* row of the store is deleted, and every conversation record the store
\* held when the run started is still there, unchanged.
C8_ExistingUntouched ==
  (runs > 0 /\ ~DryRunOf(request)) =>
    /\ \A k \in 1..Len(calls) :
         calls[k].op \in {"recordProject", "recordConversation"} =>
           /\ calls[k].id \notin loc.existingFiles
           /\ calls[k].id \notin StoredFiles(storeAtStart)
    /\ \A i \in 1..Len(storeAtStart.conversations) :
         \E j \in 1..Len(store.conversations) :
           store.conversations[j] = storeAtStart.conversations[i]
    /\ \A i \in 1..Len(storeAtStart.projects) :
         \E j \in 1..Len(store.projects) :
           store.projects[j].key = storeAtStart.projects[i].key
    /\ \A i \in 1..Len(storeAtStart.sessions) :
         \E j \in 1..Len(store.sessions) :
           store.sessions[j].key = storeAtStart.sessions[i].key

C8_Witness ==
  /\ Done
  /\ ~DryRunOf(request)
  /\ storeAtStart.conversations # <<>>
  /\ report.total_existing > 0
  /\ report.total_inserted > 0
  /\ store # storeAtStart

\* The write at position k of the log is a recordConversation that follows
\* the recordProject of the same conversation, and both are keyed as C9
\* says: recordProject by the normalized cwd of the conversation,
\* recordConversation by its transcript path.
WrittenInOrder(k) ==
  /\ k > 1
  /\ calls[k - 1].op = "recordProject"
  /\ calls[k - 1].id = calls[k].id
  /\ calls[k - 1].path = calls[k].path
  /\ \E i \in 1..Len(Processed) :
       /\ Processed[i].jsonlFile = calls[k].id
       /\ Truthy(Processed[i].cwd)
       /\ calls[k].path = normalizePathForMatch(Processed[i].cwd.v)

\* C9: in an apply run every conversation counted as inserted had its
\* recordProject and then its recordConversation issued before it was
\* counted, and when the run returns the number of recordConversation
\* calls is total_inserted.
C9_WritesBeforeCount ==
  (runs > 0 /\ ~DryRunOf(request)) =>
    /\ \A k \in CallsOf("recordConversation") : WrittenInOrder(k)
    /\ \A k \in CallsOf("recordProject") :
         k < Len(calls) => calls[k + 1].op = "recordConversation"
    /\ report.total_inserted <= Cardinality(CallsOf("recordConversation"))
    /\ \A i \in 1..Len(report.inserted_examples) :
         \E k \in CallsOf("recordConversation") :
           /\ calls[k].id = report.inserted_examples[i]
           /\ calls[k].id \in StoredFiles(store)
    /\ Done =>
         /\ report.total_inserted = Cardinality(CallsOf("recordConversation"))
         /\ report.total_inserted = Len(report.inserted_examples)

C9_Witness ==
  /\ Done
  /\ ~DryRunOf(request)
  /\ report.total_inserted > 1
  /\ \E k \in CallsOf("recordConversation") :
       \E i \in 1..Len(Processed) :
         /\ Processed[i].jsonlFile = calls[k].id
         /\ Processed[i].cwd.v # calls[k].path

\* A dry-run and an apply invocation have both returned, for the same
\* request but dryRun, the same files, registry, inventory and initial
\* store, and no store operation has failed.
C10_Pair ==
  /\ Done
  /\ PrevDone
  /\ report.mode # prev.report.mode
  /\ storeAtStart = prev.storeAtStart
  /\ faults = 0

\* C10: the reports of a dry-run and of an apply invocation on the same
\* inputs differ in mode only.
C10_ReportsDifferInModeOnly ==
  C10_Pair =>
    [report EXCEPT !.mode = "apply"] = [prev.report EXCEPT !.mode = "apply"]

C10_Witness ==
  /\ C10_Pair
  /\ report.mode = "apply"
  /\ report.active_sessions_seen > 1
  /\ report.total_inserted > 0
  /\ report.total_existing > 0
  /\ store # storeAtStart

\* ------------------------------------------------------------------------
\* normalizePathForMatch called on its own
\* ------------------------------------------------------------------------

\* Longest path string tried.
MaxPathLen == 4

\* Characters of the path strings tried: both separators, the dot of "."
\* and "..", a lower-case and an upper-case letter, the colon of a drive
\* prefix, and white space.
PathChars == {"/", "\\", ".", "a", "C", ":", " "}

PathInputs == UNION { [1..n -> PathChars] : n \in 0..MaxPathLen }

\* The engine at rest, with nothing for it to find: the state in which a
\* helper is called on its own.
Quiescent ==
  /\ fs = [claude |-> <<>>, codex |-> <<>>]
  /\ registry = Null
  /\ live = [kind |-> "throws", sessions |-> <<>>]
  /\ store = EmptyStore
  /\ faults = 0
  /\ runs = 0
  /\ pc = "idle"
  /\ caller = "engine"
  /\ body = EmptyRequest
  /\ request = EmptyRequest
  /\ report = emptyReport(AgentId, FALSE, DefaultMaxFiles * Scale)
  /\ loc = EmptyLoc
  /\ calls = <<>>
  /\ storeAtStart = store
  /\ response = NoResponse
  /\ prev = [pc |-> "none", request |-> EmptyRequest,
             report |-> emptyReport(AgentId, FALSE, DefaultMaxFiles * Scale),
             storeAtStart |-> store]

engine ==
  <<fs, registry, live, store, faults, runs, pc, caller, body, request,
    report, loc, calls, storeAtStart, response, prev>>

InitPath ==
  /\ Quiescent
  /\ arg \in { Str(p) : p \in PathInputs }
  /\ ret = NoCall

\* normalizePathForMatch(arg) returns.
NormalizePath ==
  /\ ret = NoCall
  /\ ret' = Str(normalizePathForMatch(arg.v))
  /\ UNCHANGED <<engine, arg>>

NextPath == NormalizePath

SpecPath == InitPath /\ [][NextPath]_vars

\* normalizePathForMatch has returned.
Normalized == ret # NoCall

\* C16: for every path string p, normalizePathForMatch(p) is what
\* normalizePathForMatch returns for p followed by one more separator,
\* "/" or "\".
C16_TrailingSeparatorIgnored ==
  Normalized =>
    /\ ret.v = normalizePathForMatch(Append(arg.v, "/"))
    /\ ret.v = normalizePathForMatch(Append(arg.v, "\\"))

\* C17: a path string and the same string written with "/" for every "\"
\* (redundant separators, "." and ".." segments included) are normalized to
\* the same string, and that string holds no "\".
C17_SeparatorConventionIgnored ==
  Normalized =>
    /\ ret.v = normalizePathForMatch(ReplaceBackslashes(arg.v))
    /\ \A i \in 1..Len(ret.v) : ret.v[i] # "\\"

\* The letters of s, in order.
RECURSIVE Letters(_)
Letters(s) ==
  IF s = <<>> THEN <<>>
  ELSE IF IsLetter(Head(s)) THEN <<Head(s)>> \o Letters(Tail(s))
  ELSE Letters(Tail(s))

\* s can be had from t by leaving elements out.
RECURSIVE IsSubsequence(_, _)
IsSubsequence(s, t) ==
  IF s = <<>> THEN TRUE
  ELSE IF t = <<>> THEN FALSE
  ELSE IF Head(s) = Head(t) THEN IsSubsequence(Tail(s), Tail(t))
  ELSE IsSubsequence(s, Tail(t))

\* The input begins with a letter and a colon.
HasDrivePrefix(s) == Len(s) >= 2 /\ IsLetter(s[1]) /\ s[2] = ":"

\* C18: when the input begins with a drive prefix (a letter and a colon,
\* the bare drive roots "C:\" and "C:/" included), the result begins with
\* that letter in lower case and a colon, and every other letter of the
\* result has the case it has in the input.
C18_DriveLetterLowered ==
  (Normalized /\ HasDrivePrefix(arg.v)) =>
    /\ Len(ret.v) >= 2
    /\ ret.v[1] = ToLowerCase(arg.v[1])
    /\ ret.v[2] = ":"
    /\ IsSubsequence(Letters(Tail(ret.v)), Letters(Tail(arg.v)))

\* ------------------------------------------------------------------------
\* One invocation against a session inventory that fails
\* ------------------------------------------------------------------------

\* The ways GET /api/sessions fails: the request throws, the status is not
\* a success, the body is not JSON, or the body's session list holds a null
\* entry (after a session of another agent and one of this agent, and
\* before another one of this agent).
LiveFailureInputs ==
  { [kind |-> "throws", sessions |-> <<>>],
    [kind |-> "notOk", sessions |-> <<>>],
    [kind |-> "notJson", sessions |-> <<>>],
    [kind |-> "ok",
     sessions |-> << Session("t1", OtherAgentId, Str(PathC)),
                     Session("t2", AgentId, Str(PathB)),
                     Null,
                     Session("t3", AgentId, Str(PathC)) >>] }

\* Nothing has been invoked and no helper has been called.
AtRest ==
  /\ faults = 0
  /\ runs = 0
  /\ pc = "idle"
  /\ caller = "engine"
  /\ body = EmptyRequest
  /\ request = EmptyRequest
  /\ report = emptyReport(AgentId, FALSE, DefaultMaxFiles * Scale)
  /\ loc = EmptyLoc
  /\ calls = <<>>
  /\ storeAtStart = store
  /\ response = NoResponse
  /\ prev = [pc |-> "none", request |-> EmptyRequest,
             report |-> emptyReport(AgentId, FALSE, DefaultMaxFiles * Scale),
             storeAtStart |-> store]
  /\ arg = NoCall
  /\ ret = NoCall

InitLive ==
  /\ fs \in FsInputs
  /\ registry \in RegistryInputs
  /\ live \in LiveFailureInputs
  /\ store \in StoreInputs
  /\ AtRest

\* The first invocation.
InvokeOnce(c, b) == runs = 0 /\ Invoke(c, b)

NextOnce ==
  \/ \E c \in CallerInputs, b \in BodyInputs : InvokeOnce(c, b)
  \/ FetchResponds
  \/ RecordSessionReturns
  \/ GetProjectsReturns
  \/ GetConversationsReturns
  \/ RecordProjectReturns
  \/ RecordConversationReturns
  \/ StoreFails

SpecLive == InitLive /\ [][NextOnce]_vars

\* The inventory request failed: it threw, or answered with a non-success
\* status, or with a malformed body.
LiveFailed ==
  \/ live.kind # "ok"
  \/ \E i \in 1..Len(live.sessions) : Malformed(live.sessions[i])

\* C12: when the inventory request throws, answers with a non-success
\* status or answers with a malformed body, the invocation is not rejected
\* for it (only a failed store operation rejects it), and the report it
\* returns has success == true and, as working_directories, exactly the
\* normalized directories of the registry.
C12_LiveFailureDegradesToRegistry ==
  LiveFailed =>
    /\ pc = "rejected" => faults > 0
    /\ Done =>
         /\ report.success
         /\ report.working_directories = RegistryDirectories(registry)

\* ------------------------------------------------------------------------
\* Store failures; the resolved working directories
\* ------------------------------------------------------------------------

\* C13: whenever a store operation of the engine fails (getProjects,
\* getConversations, recordSession, recordProject or recordConversation),
\* the invocation is rejected, and the route answers with status 500 and
\* success == false.
C13_StoreFailuresAreFatal ==
  [][StoreFails =>
       /\ pc' = "rejected"
       /\ caller = "route" =>
            (response'.status = 500 /\ response'.success = FALSE)]_vars

\* Indices of the live sessions that belong to the target agent.
OwnSessions ==
  IF live.kind = "ok"
  THEN { i \in 1..Len(live.sessions) :
           ~Malformed(live.sessions[i]) /\ live.sessions[i].agentId = AgentId }
  ELSE {}

\* C14: in every returned report, working_directories holds the normalized
\* registry directories and the normalized working directory of every live
\* session of the target agent and nothing else, and active_sessions_seen
\* is the number of live sessions of the target agent, with or without a
\* working directory.
C14_DirectoriesAndSessionCount ==
  Done =>
    /\ Elements(report.working_directories)
         = Elements(RegistryDirectories(registry))
           \cup { normalizePathForMatch(live.sessions[i].workingDirectory.v) :
                    i \in { k \in OwnSessions :
                              Truthy(live.sessions[k].workingDirectory) } }
    /\ report.active_sessions_seen = Cardinality(OwnSessions)

\* ------------------------------------------------------------------------
\* Two invocations that differ only in force
\* ------------------------------------------------------------------------

ForceValues == { Undefined, Bool(TRUE), Bool(FALSE) }

BodyForceInputs ==
  [sources : SourcesInputs, dryRun : DryRunInputs, force : ForceValues,
   maxFiles : { Undefined, Num(Scale + 1) }]

InitForce ==
  /\ fs \in FsInputs
  /\ registry \in RegistryInputs
  /\ live \in LiveInputs
  /\ store \in StoreInputs
  /\ AtRest

\* The first of the two invocations.
InvokeFirst(c, b) == runs = 0 /\ Invoke(c, b)

\* The second of the two: the same caller with the same request but for
\* force = f, started on the store the first one started on.  What the
\* first one answered, wrote and left in the store is kept in prev.
InvokeTwin(f) ==
  /\ pc = "done"
  /\ runs = 1
  /\ f # body.force
  /\ LET b == [body EXCEPT !.force = f]
         req == IF caller = "route" THEN RouteRequest(b) ELSE b
     IN  /\ body' = b
         /\ request' = req
         /\ report' = emptyReport(AgentId, DryRunOf(req), MaxFilesOf(req))
  /\ store' = storeAtStart
  /\ loc' = [EmptyLoc EXCEPT
               !.workingDirectories = RegistryDirectories(registry)]
  /\ pc' = "fetch"
  /\ runs' = runs + 1
  /\ calls' = <<>>
  /\ response' = NoResponse
  /\ prev' = [pc |-> pc, request |-> request, report |-> report,
              storeAtStart |-> storeAtStart, calls |-> calls,
              store |-> store, response |-> response]
  /\ UNCHANGED <<env, faults, caller, storeAtStart>>

NextForce ==
  \/ \E c \in CallerInputs, b \in BodyForceInputs : InvokeFirst(c, b)
  \/ \E f \in ForceValues : InvokeTwin(f)
  \/ FetchResponds
  \/ RecordSessionReturns
  \/ GetProjectsReturns
  \/ GetConversationsReturns
  \/ RecordProjectReturns
  \/ RecordConversationReturns
  \/ StoreFails

SpecForce == InitForce /\ [][NextForce]_vars

\* Both invocations have returned, no store operation having failed.
BothDone == runs = 2 /\ Done /\ faults = 0

\* Matched conversations whose transcript the store held at the start.
MatchedStored ==
  { i \in 1..Len(loc.matched) :
      loc.matched[i].jsonlFile \in StoredFiles(storeAtStart) }

\* C15: two invocations that differ only in force return the same report
\* (and the route the same response), issue the same store writes in the
\* same order and leave the same store; and with force = true a transcript
\* the store already holds is counted as existing and never written.
C15_ForceChangesNothing ==
  /\ BothDone =>
       /\ report = prev.report
       /\ response = prev.response
       /\ calls = prev.calls
       /\ store = prev.store
  /\ request.force = Bool(TRUE) =>
       /\ \A i \in 1..Len(calls) :
            calls[i].op \in {"recordProject", "recordConversation"}
              => calls[i].id \notin StoredFiles(storeAtStart)
       /\ Done => report.total_existing = Cardinality(MatchedStored)

C15_Witness ==
  /\ BothDone
  /\ request.force = Bool(TRUE)
  /\ prev.request.force # Bool(TRUE)
  /\ report.mode = "apply"
  /\ report.total_existing > 0
  /\ report.total_inserted > 0

\* ------------------------------------------------------------------------
\* One invocation over more transcripts than an example list holds
\* ------------------------------------------------------------------------

\* Transcripts in each of three groups; more than MAX_EXAMPLES.
GroupSize == 21

\* Claude transcripts, by turns one without cwd and one under /a/ (the
\* ones ManyStore holds), and codex transcripts under /a.
ManyFs ==
  [claude |->
     [i \in 1..(2 * GroupSize) |->
        IF i % 2 = 1
        THEN File("~/.claude/projects/p/" \o ToString(i) \o ".jsonl",
                  ClaudeDir, TRUE, Null, Null, 1)
        ELSE File("~/.claude/projects/p/" \o ToString(i) \o ".jsonl",
                  ClaudeDir, TRUE, Str(PathASlash), Str(<<"s">>), 2)],
   codex |->
     [i \in 1..GroupSize |->
        File("~/.codex/sessions/2025/" \o ToString(i) \o ".jsonl",
             CodexDir, TRUE, Str(PathA), Null, 3)]]

\* A store that holds the claude transcripts under /a, from an earlier
\* ingestion.
ManyStore ==
  LET F[i \in 0..GroupSize] ==
        IF i = 0
        THEN recordProject(EmptyStore,
               [project_path |-> PathA, project_name |-> <<"a">>,
                claude_dir |-> ClaudeDir])
        ELSE recordConversation(F[i - 1],
               [jsonl_file |-> "~/.claude/projects/p/" \o ToString(2 * i)
                                 \o ".jsonl",
                project_path |-> PathA, session_id |-> <<"s">>,
                message_count |-> 2])
  IN  F[GroupSize]

InitExamples ==
  /\ fs = ManyFs
  /\ registry = [type |-> "object", workingDirectory |-> Str(PathASlash),
                 sessions |-> <<>>, defaultWorkingDirectory |-> Undefined]
  /\ live \in LiveInputs
  /\ store \in { EmptyStore, ManyStore }
  /\ AtRest

SpecExamples == InitExamples /\ [][NextOnce]_vars

\* The transcript paths of the conversations of seq, in order.
PathsOf(seq) == [i \in 1..Len(seq) |-> seq[i].jsonlFile]

\* The first n elements of seq, or all of seq.
FirstOf(seq, n) == SubSeq(seq, 1, Min(n, Len(seq)))

\* The conversations gone through, in processing order, that were left
\* unmapped, found in the store, and found new.
UnmappedInOrder ==
  SelectSeq(Processed, LAMBDA c : c.jsonlFile \notin MatchedFiles)

ExistingInOrder ==
  SelectSeq(loc.matched, LAMBDA c : c.jsonlFile \in loc.existingFiles)

InsertedInOrder ==
  SelectSeq(loc.matched, LAMBDA c : c.jsonlFile \notin loc.existingFiles)

\* C11: none of the three example lists ever holds more than MAX_EXAMPLES
\* entries, and in every returned report each list has min(MAX_EXAMPLES,
\* its total counter) entries, which are the transcript paths of the first
\* conversations so classified, in processing order.
C11_ExamplesCapped ==
  /\ Len(report.unmapped_examples) <= MAX_EXAMPLES
  /\ Len(report.existing_examples) <= MAX_EXAMPLES
  /\ Len(report.inserted_examples) <= MAX_EXAMPLES
  /\ Done =>
       /\ Len(report.unmapped_examples)
            = Min(MAX_EXAMPLES, report.total_unmapped)
       /\ Len(report.existing_examples)
            = Min(MAX_EXAMPLES, report.total_existing)
       /\ Len(report.inserted_examples)
            = Min(MAX_EXAMPLES, report.total_inserted)
       /\ report.unmapped_examples
            = FirstOf(PathsOf(UnmappedInOrder), MAX_EXAMPLES)
       /\ report.existing_examples
            = FirstOf(PathsOf(ExistingInOrder), MAX_EXAMPLES)
       /\ report.inserted_examples
            = FirstOf(PathsOf(InsertedInOrder), MAX_EXAMPLES)

C11_Witness ==
  /\ Done
  /\ report.mode = "apply"
  /\ report.total_unmapped > MAX_EXAMPLES
  /\ report.total_existing > MAX_EXAMPLES
  /\ report.total_inserted > MAX_EXAMPLES
  /\ Len(report.unmapped_examples) = MAX_EXAMPLES
  /\ Len(report.existing_examples) = MAX_EXAMPLES
  /\ Len(report.inserted_examples) = MAX_EXAMPLES

\* ------------------------------------------------------------------------
\* Transcript extractors
\* ------------------------------------------------------------------------

\* The extractors' windows and the preview length.
META_LINES == 80

TAIL_LINES == 50

PREVIEW_LENGTH == 100

\* What JSON.parse makes of a line: a JavaScript value, or (it throws)
\* nothing.  An object is a record of its properties; its property "type"
\* is the field type_.
SyntaxError == [type |-> "syntaxError"]

Obj(properties) == [type |-> "object"] @@ properties

\* v[name]: undefined when v has no such property.
Prop(v, name) ==
  IF v.type = "object" /\ name \in DOMAIN v THEN v[name] ELSE Undefined

\* The try block throws at once: the line is not JSON, or it is the JSON
\* null, whose properties cannot be read.
Throws(line) == line.type \in {"syntaxError", "null"}

IsString(v) == v.type = "string"

Digits == <<"0", "1", "2", "3", "4", "5", "6", "7", "8", "9">>

NaN == [type |-> "number", nan |-> TRUE]

\* new Date(s).getTime(), for the dates written "T" and a digit, the
\* digit being the time; any other string is no date.
DateGetTime(s) ==
  IF Len(s) = 2 /\ s[1] = "T" /\ \E d \in 1..10 : s[2] = Digits[d]
  THEN Num(((CHOOSE d \in 1..10 : s[2] = Digits[d]) - 1) * Scale)
  ELSE NaN

parseTimestamp(raw) ==
  IF ~IsString(raw) \/ raw.v = <<>> THEN Null
  ELSE IF DateGetTime(raw.v) = NaN THEN Null
  ELSE DateGetTime(raw.v)

\* s.replace(/[\n\r\t]+/g, ' ')
ReplaceControlRuns(s) ==
  LET control(i) == s[i] \in {"\n", "\r", "\t"}
      kept == SelectSeq([i \in 1..Len(s) |-> i],
                LAMBDA i : ~control(i) \/ i = 1 \/ ~control(i - 1))
  IN  [k \in 1..Len(kept) |-> IF control(kept[k]) THEN " " ELSE s[kept[k]]]

\* Mutant of truncateText: the text is never cut.
truncateText_Uncut(raw) ==
  IF ~Truthy(raw) THEN Null
  ELSE LET normalized == Trim(ReplaceControlRuns(raw.v))
       IN  IF normalized = <<>> THEN Null ELSE Str(normalized)

truncateText(raw) ==
  IF ~Truthy(raw) THEN Null
  ELSE LET normalized == Trim(ReplaceControlRuns(raw.v))
       IN  IF normalized = <<>> THEN Null
           ELSE IF Len(normalized) > PREVIEW_LENGTH
           THEN Str(SubSeq(normalized, 1, PREVIEW_LENGTH))
           ELSE Str(normalized)

\* String.prototype.includes
Includes(s, part) ==
  \E i \in 1..(Len(s) - Len(part) + 1) :
    SubSeq(s, i, i + Len(part) - 1) = part

\* Mutant of toDisplayModel: 'opus' is looked for before 'sonnet'.
toDisplayModel_OpusFirst(model) ==
  LET normalized == [i \in 1..Len(model) |-> ToLowerCase(model[i])]
  IN  IF Includes(normalized, <<"o", "p", "u", "s">>)
      THEN <<"O", "p", "u", "s", " ", "4", ".", "5">>
      ELSE IF Includes(normalized, <<"s", "o", "n", "n", "e", "t">>)
      THEN <<"S", "o", "n", "n", "e", "t", " ", "4", ".", "5">>
      ELSE IF Includes(normalized, <<"h", "a", "i", "k", "u">>)
      THEN <<"H", "a", "i", "k", "u", " ", "4", ".", "5">>
      ELSE model

toDisplayModel(model) ==
  LET normalized == [i \in 1..Len(model) |-> ToLowerCase(model[i])]
  IN  IF Includes(normalized, <<"s", "o", "n", "n", "e", "t">>)
      THEN <<"S", "o", "n", "n", "e", "t", " ", "4", ".", "5">>
      ELSE IF Includes(normalized, <<"h", "a", "i", "k", "u">>)
      THEN <<"H", "a", "i", "k", "u", " ", "4", ".", "5">>
      ELSE IF Includes(normalized, <<"o", "p", "u", "s">>)
      THEN <<"O", "p", "u", "s", " ", "4", ".", "5">>
      ELSE model

\* The text of one entry of a content list, or the empty string.
ChunkText(entry) ==
  IF ~Truthy(entry) \/ entry.type # "object" THEN <<>>
  ELSE IF /\ Prop(entry, "type_") \in { Str(<<"i", "n", "p", "u", "t", "_",
                                             "t", "e", "x", "t">>),
                                        Str(<<"t", "e", "x", "t">>) }
          /\ IsString(Prop(entry, "text"))
  THEN Prop(entry, "text").v
  ELSE <<>>

parseUserContent(payload) ==
  IF ~Truthy(payload) \/ payload.type # "object" THEN Null
  ELSE
    LET content == Prop(payload, "content")
    IN  IF IsString(content) THEN truncateText(content)
        ELSE IF content.type = "array"
        THEN LET texts == [i \in 1..Len(content.v) |->
                             ChunkText(content.v[i])]
                 chunks == SelectSeq(texts, LAMBDA t : t # <<>>)
             IN  truncateText(Str(Join(chunks, " ")))
        ELSE Null

\* Array.prototype.join(', ') of a non-empty list of strings.
RECURSIVE JoinCommaSpace(_)
JoinCommaSpace(names) ==
  IF Len(names) = 1 THEN names[1]
  ELSE names[1] \o <<",", " ">> \o JoinCommaSpace(Tail(names))

\* modelSet.size > 0 ? Array.from(modelSet).join(', ') : null
ModelNamesOf(modelSet) ==
  IF modelSet # <<>> THEN Str(JoinCommaSpace(modelSet)) ELSE Null

\* !current && typeof value === 'string' ? value : current
FirstString(current, value) ==
  IF ~Truthy(current) /\ IsString(value) THEN value ELSE current

\* The smaller of the time so far and a parsed time that is not null.
Earliest(current, parsedTs) ==
  IF parsedTs # Null /\ (current = Null \/ parsedTs.v < current.v)
  THEN parsedTs ELSE current

Latest(current, parsedTs) ==
  IF parsedTs # Null /\ (current = Null \/ parsedTs.v > current.v)
  THEN parsedTs ELSE current

UserType == Str(<<"u", "s", "e", "r">>)

AssistantType == Str(<<"a", "s", "s", "i", "s", "t", "a", "n", "t">>)

\* The locals of an extractor before its first line.
NoMetadata ==
  [sessionId |-> Null, cwd |-> Null, firstUserMessage |-> Null,
   gitBranch |-> Null, cliVersion |-> Null, firstMessageAt |-> Null,
   lastMessageAt |-> Null, modelSet |-> <<>>]

\* One pass of the first loop of extractConversationFromClaudeLines.
ClaudeLine(st, message) ==
  IF Throws(message) THEN st
  ELSE
    LET msg == Prop(message, "message")
    IN  [st EXCEPT
           !.sessionId = FirstString(@, Prop(message, "sessionId")),
           !.cwd = FirstString(@, Prop(message, "cwd")),
           !.gitBranch = FirstString(@, Prop(message, "gitBranch")),
           !.cliVersion = FirstString(@, Prop(message, "version")),
           !.firstMessageAt =
              Earliest(@, parseTimestamp(Prop(message, "timestamp"))),
           !.firstUserMessage =
              IF /\ ~Truthy(@)
                 /\ Prop(message, "type_") = UserType
                 /\ Truthy(msg)
                 /\ IsString(Prop(msg, "content"))
              THEN truncateText(Prop(msg, "content"))
              ELSE @,
           !.modelSet =
              IF /\ Prop(message, "type_") = AssistantType
                 /\ Truthy(msg)
                 /\ IsString(Prop(msg, "model"))
              THEN SetAdd(@, toDisplayModel(Prop(msg, "model").v))
              ELSE @]

\* The first loop over lines[lo..hi], in order: the locals the first half
\* of the range leaves are the ones the second half starts from.
RECURSIVE ClaudeLines(_, _, _, _)
ClaudeLines(st, lines, lo, hi) ==
  IF lo > hi THEN st
  ELSE IF lo = hi THEN ClaudeLine(st, lines[lo])
  ELSE LET mid == (lo + hi) \div 2
       IN  CHOOSE after \in
             { ClaudeLines(half, lines, mid + 1, hi) :
                 half \in { ClaudeLines(st, lines, lo, mid) } }
             : TRUE

\* The second loop: the time of the last line, among the TAIL_LINES last
\* ones, that parses and carries a time.
ClaudeLastMessageAt(lines) ==
  LET timed == { i \in 1..Len(lines) :
                   /\ i > Len(lines) - TAIL_LINES
                   /\ ~Throws(lines[i])
                   /\ parseTimestamp(Prop(lines[i], "timestamp")) # Null }
  IN  IF timed = {} THEN Null
      ELSE parseTimestamp(
             Prop(lines[CHOOSE i \in timed : \A j \in timed : j <= i],
                  "timestamp"))

\* The DiscoveredConversation an extractor returns from its locals.
Conversation(source, jsonlFile, st, lastMessageAt, lines) ==
  [source |-> source,
   jsonlFile |-> jsonlFile,
   cwd |-> st.cwd,
   sessionId |-> st.sessionId,
   firstMessageAt |-> st.firstMessageAt,
   lastMessageAt |-> lastMessageAt,
   messageCount |-> Len(lines),
   firstUserMessage |-> st.firstUserMessage,
   modelNames |-> ModelNamesOf(st.modelSet),
   gitBranch |-> st.gitBranch,
   cliVersion |-> st.cliVersion]

\* Mutant of extractConversationFromClaudeLines: only the lines that parse
\* are counted.
extractConversationFromClaudeLines_CountsParsed(lines, jsonlFile) ==
  [Conversation("claude", jsonlFile,
                ClaudeLines(NoMetadata, lines, 1, Min(Len(lines), META_LINES)),
                ClaudeLastMessageAt(lines), lines)
     EXCEPT !.messageCount =
              Len(SelectSeq(lines, LAMBDA line : ~Throws(line)))]

extractConversationFromClaudeLines(lines, jsonlFile) ==
  Conversation("claude", jsonlFile,
               ClaudeLines(NoMetadata, lines, 1, Min(Len(lines), META_LINES)),
               ClaudeLastMessageAt(lines), lines)

\* The branch of the loop of extractConversationFromCodexLines for a
\* session_meta event.
CodexSessionMeta(st, payload) ==
  IF ~Truthy(payload) THEN st
  ELSE
    LET git == Prop(payload, "git")
    IN  [st EXCEPT
           !.sessionId = FirstString(@, Prop(payload, "id")),
           !.cwd = FirstString(@, Prop(payload, "cwd")),
           !.cliVersion = FirstString(@, Prop(payload, "cli_version")),
           !.gitBranch =
              IF ~Truthy(@) /\ Truthy(git) /\ IsString(Prop(git, "branch"))
              THEN Prop(git, "branch") ELSE @]

CodexTurnContext(st, payload) ==
  IF ~Truthy(payload) THEN st
  ELSE [st EXCEPT
          !.cwd = FirstString(@, Prop(payload, "cwd")),
          !.modelSet = IF IsString(Prop(payload, "model"))
                       THEN SetAdd(@, Prop(payload, "model").v) ELSE @]

CodexResponseItem(st, payload) ==
  IF \/ ~Truthy(payload)
     \/ Prop(payload, "type_") # Str(<<"m", "e", "s", "s", "a", "g", "e">>)
     \/ Prop(payload, "role") # UserType
  THEN st
  ELSE [st EXCEPT
          !.firstUserMessage =
             IF ~Truthy(@) THEN parseUserContent(payload) ELSE @]

CodexEventMsg(st, payload) ==
  IF ~Truthy(payload) THEN st
  ELSE [st EXCEPT
          !.firstUserMessage =
             IF /\ ~Truthy(@)
                /\ Prop(payload, "type_")
                     = Str(<<"u", "s", "e", "r", "_", "m", "e", "s", "s",
                             "a", "g", "e">>)
                /\ IsString(Prop(payload, "message"))
             THEN truncateText(Prop(payload, "message"))
             ELSE @]

\* One pass of the loop of extractConversationFromCodexLines.
CodexLine(st, event) ==
  IF Throws(event) THEN st
  ELSE
    LET eventTs == parseTimestamp(Prop(event, "timestamp"))
        timed == [st EXCEPT !.firstMessageAt = Earliest(@, eventTs),
                            !.lastMessageAt = Latest(@, eventTs)]
        type == Prop(event, "type_")
        payload == Prop(event, "payload")
    IN  CASE type = Str(<<"s", "e", "s", "s", "i", "o", "n", "_",
                          "m", "e", "t", "a">>)
               -> CodexSessionMeta(timed, payload)
          [] type = Str(<<"t", "u", "r", "n", "_", "c", "o", "n", "t", "e",
                          "x", "t">>)
               -> CodexTurnContext(timed, payload)
          [] type = Str(<<"r", "e", "s", "p", "o", "n", "s", "e", "_",
                          "i", "t", "e", "m">>)
               -> CodexResponseItem(timed, payload)
          [] type = Str(<<"e", "v", "e", "n", "t", "_", "m", "s", "g">>)
               -> CodexEventMsg(timed, payload)
          [] OTHER -> timed

\* Mutant of CodexLines: a line that throws loses what was gathered.
RECURSIVE CodexLines_ThrowResets(_, _, _, _)
CodexLines_ThrowResets(st, lines, lo, hi) ==
  IF lo > hi THEN st
  ELSE IF lo = hi
  THEN IF Throws(lines[lo]) THEN NoMetadata ELSE CodexLine(st, lines[lo])
  ELSE LET mid == (lo + hi) \div 2
       IN  CHOOSE after \in
             { CodexLines_ThrowResets(half, lines, mid + 1, hi) :
                 half \in { CodexLines_ThrowResets(st, lines, lo, mid) } }
             : TRUE

\* The loop over lines[lo..hi], in order: the locals the first half of the
\* range leaves are the ones the second half starts from.
RECURSIVE CodexLines(_, _, _, _)
CodexLines(st, lines, lo, hi) ==
  IF lo > hi THEN st
  ELSE IF lo = hi THEN CodexLine(st, lines[lo])
  ELSE LET mid == (lo + hi) \div 2
       IN  CHOOSE after \in
             { CodexLines(half, lines, mid + 1, hi) :
                 half \in { CodexLines(st, lines, lo, mid) } }
             : TRUE

extractConversationFromCodexLines(lines, jsonlFile) ==
  LET st == CodexLines(NoMetadata, lines, 1, Len(lines))
  IN  Conversation("codex", jsonlFile, st, st.lastMessageAt, lines)

\* ------------------------------------------------------------------------
\* The extractors called on their own
\* ------------------------------------------------------------------------

\* Longest list of lines tried.
MaxLines == 3

\* Lines of a claude transcript: one that is not JSON, the JSON null, a
\* JSON number, and messages.
ClaudeLineInputs ==
  { SyntaxError,
    Null,
    Num(Scale),
    Obj([sessionId |-> Str(<<"s", "1">>), cwd |-> Str(PathA),
         gitBranch |-> Str(<<"m">>), version |-> Str(<<"2">>),
         timestamp |-> Str(<<"T", "2">>), type_ |-> UserType,
         message |-> Obj([content |-> Str(<<"h", "\n", "\t", "i", " ">>)])]),
    Obj([cwd |-> Str(PathB), timestamp |-> Str(<<"T", "5">>),
         type_ |-> AssistantType,
         message |-> Obj([model |-> Str(<<"X", "-", "O", "p", "u", "s">>)])]),
    Obj([sessionId |-> Str(<<>>), timestamp |-> Str(<<"T", "1">>),
         type_ |-> UserType,
         message |-> Obj([content |->
                            Arr(<< Obj([type_ |-> Str(<<"t", "e", "x", "t">>),
                                        text |-> Str(<<"y">>)]) >>)])]),
    Obj([timestamp |-> Str(<<"n", "o">>), type_ |-> AssistantType,
         message |-> Null]) }

\* Lines of a codex transcript: one that is not JSON, the JSON null, a JSON
\* string, and events.
CodexLineInputs ==
  { SyntaxError,
    Null,
    Str(<<"x">>),
    Obj([timestamp |-> Str(<<"T", "3">>),
         type_ |-> Str(<<"s", "e", "s", "s", "i", "o", "n", "_",
                         "m", "e", "t", "a">>),
         payload |-> Obj([id |-> Str(<<"s", "9">>), cwd |-> Str(PathB),
                          cli_version |-> Str(<<"0">>),
                          git |-> Obj([branch |-> Str(<<"d">>)])])]),
    Obj([timestamp |-> Str(<<"T", "1">>),
         type_ |-> Str(<<"t", "u", "r", "n", "_", "c", "o", "n", "t", "e",
                         "x", "t">>),
         payload |-> Obj([cwd |-> Str(PathA), model |-> Str(<<"g">>)])]),
    Obj([timestamp |-> Str(<<"T", "4">>),
         type_ |-> Str(<<"r", "e", "s", "p", "o", "n", "s", "e", "_",
                         "i", "t", "e", "m">>),
         payload |->
           Obj([type_ |-> Str(<<"m", "e", "s", "s", "a", "g", "e">>),
                role |-> UserType,
                content |->
                  Arr(<< Obj([type_ |-> Str(<<"i", "n", "p", "u", "t", "_",
                                              "t", "e", "x", "t">>),
                              text |-> Str(<<"a", "\t", "b">>)]),
                         Null,
                         Obj([type_ |-> Str(<<"t", "e", "x", "t">>),
                              text |-> Str(<<"c">>)]) >>)])]),
    Obj([type_ |-> Str(<<"e", "v", "e", "n", "t", "_", "m", "s", "g">>),
         payload |->
           Obj([type_ |-> Str(<<"u", "s", "e", "r", "_", "m", "e", "s", "s",
                                "a", "g", "e">>),
                message |-> Str(<<"h", "e", "y">>)])]),
    Obj([timestamp |-> Str(<<"n", "o">>),
         type_ |-> Str(<<"r", "e", "s", "p", "o", "n", "s", "e", "_",
                         "i", "t", "e", "m">>)]) }

LinesOver(inputs) == UNION { [1..n -> inputs] : n \in 0..MaxLines }

InitExtract ==
  /\ Quiescent
  /\ arg \in
       { [source |-> "claude", lines |-> lines,
          jsonlFile |-> "~/.claude/projects/p/1.jsonl"] :
           lines \in LinesOver(ClaudeLineInputs) }
       \cup
       { [source |-> "codex", lines |-> lines,
          jsonlFile |-> "~/.codex/sessions/2025/5.jsonl"] :
           lines \in LinesOver(CodexLineInputs) }
  /\ ret = NoCall

\* extractConversationFromClaudeLines(arg.lines, arg.jsonlFile) returns.
ExtractClaude ==
  /\ ret = NoCall
  /\ arg.source = "claude"
  /\ ret' = extractConversationFromClaudeLines(arg.lines, arg.jsonlFile)
  /\ UNCHANGED <<engine, arg>>

\* extractConversationFromCodexLines(arg.lines, arg.jsonlFile) returns.
ExtractCodex ==
  /\ ret = NoCall
  /\ arg.source = "codex"
  /\ ret' = extractConversationFromCodexLines(arg.lines, arg.jsonlFile)
  /\ UNCHANGED <<engine, arg>>

NextExtract == ExtractClaude \/ ExtractCodex

SpecExtract == InitExtract /\ [][NextExtract]_vars

\* An extractor has returned.
Extracted == ret # NoCall

\* C19: what either extractor returns has, as messageCount, the number of
\* lines it was given, the lines that do not decode included; as source,
\* "claude" or "codex" after the extractor; and as jsonlFile, the path it
\* was given.
C19_CountsEveryLine ==
  Extracted =>
    /\ ret.messageCount = Len(arg.lines)
    /\ ret.source = arg.source
    /\ ret.jsonlFile = arg.jsonlFile

C19_Witness ==
  /\ Extracted
  /\ arg.source = "claude"
  /\ ret.messageCount = 3
  /\ arg.lines[2] = SyntaxError
  /\ arg.lines[3] = Null
  /\ ret.cwd # Null

\* A line that does not decode to an object.
Undecodable(line) == line.type # "object"

\* The record without its messageCount.
Fields(conversation) ==
  [f \in DOMAIN conversation \ {"messageCount"} |-> conversation[f]]

\* The extractor of arg.source.
Extractor(lines) ==
  IF arg.source = "claude"
  THEN extractConversationFromClaudeLines(lines, arg.jsonlFile)
  ELSE extractConversationFromCodexLines(lines, arg.jsonlFile)

\* C20: for every list of lines, lines that are not JSON or decode to a
\* non-object included, either extractor returns a record; but for
\* messageCount, the record is the one returned when every undecodable line
\* is an empty object in its place, and for the codex extractor the one
\* returned for the list without its undecodable lines.
C20_UndecodableLinesSkipped ==
  Extracted =>
    /\ DOMAIN ret = DOMAIN Conversation("", "", NoMetadata, Null, <<>>)
    /\ Fields(ret)
         = Fields(Extractor([i \in 1..Len(arg.lines) |->
                               IF Undecodable(arg.lines[i])
                               THEN Obj(<<>>) ELSE arg.lines[i]]))
    /\ arg.source = "codex" =>
         Fields(ret)
           = Fields(Extractor(SelectSeq(arg.lines,
                                LAMBDA line : ~Undecodable(line))))

C20_Witness ==
  /\ Extracted
  /\ arg.source = "codex"
  /\ Len(arg.lines) = 3
  /\ arg.lines[2] \in {SyntaxError, Null}
  /\ ret.cwd # Null
  /\ ret.firstUserMessage # Null

\* ------------------------------------------------------------------------
\* The extractors on transcripts longer than the claude extractor's windows
\* ------------------------------------------------------------------------

\* Most lines tried after the first META_LINES.
MaxTail == 2

\* META_LINES times the same line, then up to MaxTail lines more.
LongLinesOver(inputs) ==
  { [i \in 1..(META_LINES + Len(tail)) |->
       IF i <= META_LINES THEN head ELSE tail[i - META_LINES]] :
      head \in inputs,
      tail \in UNION { [1..n -> inputs] : n \in 1..MaxTail } }

InitWindow ==
  /\ Quiescent
  /\ arg \in
       { [source |-> "claude", lines |-> lines,
          jsonlFile |-> "~/.claude/projects/p/1.jsonl"] :
           lines \in LongLinesOver(ClaudeLineInputs) }
       \cup
       { [source |-> "codex", lines |-> lines,
          jsonlFile |-> "~/.codex/sessions/2025/5.jsonl"] :
           lines \in LongLinesOver(CodexLineInputs) }
  /\ ret = NoCall

SpecWindow == InitWindow /\ [][NextExtract]_vars

\* C21: in what either extractor returns, firstMessageAt is not after
\* lastMessageAt when neither is null, whatever the order of the
\* timestamps in the lines.
C21_FirstNotAfterLast ==
  Extracted /\ ret.firstMessageAt # Null /\ ret.lastMessageAt # Null
    => ret.firstMessageAt.v <= ret.lastMessageAt.v

\* ------------------------------------------------------------------------
\* The preview and the model names of a claude transcript
\* ------------------------------------------------------------------------

\* The lines of the scanned prefix tagged with a type.
Tagged(lines, type) ==
  { i \in 1..Min(Len(lines), META_LINES) : Prop(lines[i], "type_") = type }

First(indices) == CHOOSE i \in indices : \A j \in indices : i <= j

\* C22: the preview the claude extractor returns is the one of the first
\* line of the scanned prefix tagged 'user': its message content when that
\* is a string, the concatenation of its text chunks when that is a list;
\* a later user line supplies nothing.
C22_PreviewFromFirstUserLine ==
  Extracted /\ arg.source = "claude" /\ Tagged(arg.lines, UserType) # {}
    => ret.firstUserMessage
         = parseUserContent(
             Prop(arg.lines[First(Tagged(arg.lines, UserType))], "message"))

\* Lines of a claude transcript that name models, or seem to.
ModelLineInputs ==
  { Obj([type_ |-> AssistantType,
         message |-> Obj([model |-> Str(<<"a", "-", "S", "o", "n", "n", "e",
                                          "t", "-", "o", "p", "u", "s">>)])]),
    Obj([type_ |-> AssistantType,
         message |-> Obj([model |-> Str(<<"H", "A", "I", "K", "U">>)])]),
    Obj([type_ |-> AssistantType,
         message |-> Obj([model |-> Str(<<"X", "-", "O", "p", "u", "s">>)])]),
    Obj([type_ |-> AssistantType,
         message |-> Obj([model |-> Str(<<"g", "p", "t">>)])]),
    Obj([type_ |-> UserType,
         message |-> Obj([model |-> Str(<<"s", "o", "n", "n", "e", "t">>)])]),
    Obj([type_ |-> AssistantType,
         message |-> Obj([model |-> Num(Scale)])]) }

InitModels ==
  /\ Quiescent
  /\ arg \in
       { [source |-> "claude", lines |-> lines,
          jsonlFile |-> "~/.claude/projects/p/1.jsonl"] :
           lines \in LinesOver(ModelLineInputs) }
  /\ ret = NoCall

NextModels == ExtractClaude

SpecModels == InitModels /\ [][NextModels]_vars

\* The label the claim gives a model string.
Label(model) ==
  LET lower == [i \in 1..Len(model) |-> ToLowerCase(model[i])]
  IN  CASE Includes(lower, <<"s", "o", "n", "n", "e", "t">>)
             -> <<"S", "o", "n", "n", "e", "t", " ", "4", ".", "5">>
        [] /\ ~Includes(lower, <<"s", "o", "n", "n", "e", "t">>)
           /\ Includes(lower, <<"h", "a", "i", "k", "u">>)
             -> <<"H", "a", "i", "k", "u", " ", "4", ".", "5">>
        [] /\ ~Includes(lower, <<"s", "o", "n", "n", "e", "t">>)
           /\ ~Includes(lower, <<"h", "a", "i", "k", "u">>)
           /\ Includes(lower, <<"o", "p", "u", "s">>)
             -> <<"O", "p", "u", "s", " ", "4", ".", "5">>
        [] OTHER -> model

\* The labels of the assistant lines of the scanned prefix that carry a
\* model string, in line order.
AssistantLabels(lines) ==
  LET carrying == SelectSeq([i \in 1..Min(Len(lines), META_LINES) |-> i],
                    LAMBDA i :
                      /\ Prop(lines[i], "type_") = AssistantType
                      /\ IsString(Prop(Prop(lines[i], "message"), "model")))
  IN  [k \in 1..Len(carrying) |->
         Label(Prop(Prop(lines[carrying[k]], "message"), "model").v)]

\* Each element once, at the place of its first occurrence.
FirstSightings(labels) ==
  LET firsts == SelectSeq([k \in 1..Len(labels) |-> k],
                  LAMBDA k : \A j \in 1..(k - 1) : labels[j] # labels[k])
  IN  [k \in 1..Len(firsts) |-> labels[firsts[k]]]

CarryingCwd(lines, type) ==
  { i \in 1..Len(lines) :
      /\ Prop(lines[i], "type_") = type
      /\ Truthy(Prop(Prop(lines[i], "payload"), "cwd"))
      /\ IsString(Prop(Prop(lines[i], "payload"), "cwd")) }

SessionMetaType ==
  Str(<<"s", "e", "s", "s", "i", "o", "n", "_", "m", "e", "t", "a">>)

TurnContextType ==
  Str(<<"t", "u", "r", "n", "_", "c", "o", "n", "t", "e", "x", "t">>)

\* C24: the cwd the codex extractor returns is the one of a session_meta
\* event whenever some session_meta event carries one, wherever the
\* turn_context events stand in the file; the cwd of a turn_context event
\* is returned only when no session_meta event carries one.
C24_SessionMetaCwdFirst ==
  Extracted /\ arg.source = "codex" =>
    /\ CarryingCwd(arg.lines, SessionMetaType) # {} =>
         ret.cwd = Prop(Prop(arg.lines[First(CarryingCwd(arg.lines,
                                                         SessionMetaType))],
                             "payload"), "cwd")
    /\ \A i \in CarryingCwd(arg.lines, TurnContextType) :
         ret.cwd = Prop(Prop(arg.lines[i], "payload"), "cwd")
           => \/ CarryingCwd(arg.lines, SessionMetaType) = {}
              \/ \E j \in CarryingCwd(arg.lines, SessionMetaType) :
                   Prop(Prop(arg.lines[j], "payload"), "cwd") = ret.cwd

ResponseItemType ==
  Str(<<"r", "e", "s", "p", "o", "n", "s", "e", "_", "i", "t", "e", "m">>)

EventMsgType == Str(<<"e", "v", "e", "n", "t", "_", "m", "s", "g">>)

MessageType == Str(<<"m", "e", "s", "s", "a", "g", "e">>)

UserMessageType ==
  Str(<<"u", "s", "e", "r", "_", "m", "e", "s", "s", "a", "g", "e">>)

\* n times the character c.
Repeat(c, n) == [i \in 1..n |-> c]

\* Events of a codex transcript that carry user text, or seem to.
PreviewLineInputs ==
  { SyntaxError,
    Obj([type_ |-> ResponseItemType,
         payload |->
           Obj([type_ |-> MessageType, role |-> UserType,
                content |->
                  Arr(<< Obj([type_ |-> Str(<<"i", "n", "p", "u", "t", "_",
                                              "t", "e", "x", "t">>),
                              text |-> Str(<<"a", "\n", "\r", "b">>)]),
                         Null,
                         Obj([type_ |-> Str(<<"i", "m", "a", "g", "e">>),
                              text |-> Str(<<"z">>)]),
                         Obj([type_ |-> Str(<<"t", "e", "x", "t">>),
                              text |-> Str(<<"c">>)]) >>)])]),
    Obj([type_ |-> ResponseItemType,
         payload |->
           Obj([type_ |-> MessageType, role |-> UserType,
                content |->
                  Arr(<< Obj([type_ |-> Str(<<"t", "e", "x", "t">>),
                              text |-> Str(Repeat("p", PREVIEW_LENGTH - 1))]),
                         Obj([type_ |-> Str(<<"t", "e", "x", "t">>),
                              text |-> Str(<<"q", "r">>)]) >>)])]),
    Obj([type_ |-> ResponseItemType,
         payload |-> Obj([type_ |-> MessageType, role |-> UserType,
                          content |-> Str(<<"\n", " ", "\t">>)])]),
    Obj([type_ |-> ResponseItemType,
         payload |-> Obj([type_ |-> MessageType, role |-> AssistantType,
                          content |-> Str(<<"n", "o">>)])]),
    Obj([type_ |-> EventMsgType,
         payload |-> Obj([type_ |-> UserMessageType,
                          message |-> Str(<<" ">> \o Repeat("x", PREVIEW_LENGTH)
                                            \o <<"\t", "y">>)])]),
    Obj([type_ |-> EventMsgType,
         payload |-> Obj([type_ |-> Str(<<"a", "g", "e", "n", "t">>),
                          message |-> Str(<<"n", "o">>)])]) }

InitPreview ==
  /\ Quiescent
  /\ arg \in
       { [source |-> "codex", lines |-> lines,
          jsonlFile |-> "~/.codex/sessions/2025/5.jsonl"] :
           lines \in LinesOver(PreviewLineInputs) }
  /\ ret = NoCall

NextPreview == ExtractCodex

SpecPreview == InitPreview /\ [][NextPreview]_vars

\* The user text an event yields as a preview, or null: the content of a
\* response_item that is a message of role 'user', the message of an
\* event_msg that is a user_message.
Yield(event) ==
  LET payload == Prop(event, "payload")
  IN  IF /\ Prop(event, "type_") = ResponseItemType
         /\ Prop(payload, "type_") = MessageType
         /\ Prop(payload, "role") = UserType
      THEN parseUserContent(payload)
      ELSE IF /\ Prop(event, "type_") = EventMsgType
              /\ Prop(payload, "type_") = UserMessageType
              /\ IsString(Prop(payload, "message"))
      THEN truncateText(Prop(payload, "message"))
      ELSE Null

Yielding(lines) == { i \in 1..Len(lines) : Yield(lines[i]) # Null }

\* C25: the preview the codex extractor returns is the user text of the
\* first event in file order that yields some, and null when none does; it
\* is never the empty string, has at most PREVIEW_LENGTH characters and no
\* newline, carriage return or tab.
C25_PreviewFromFirstUserText ==
  Extracted /\ arg.source = "codex" =>
    /\ IF Yielding(arg.lines) = {} THEN ret.firstUserMessage = Null
       ELSE ret.firstUserMessage = Yield(arg.lines[First(Yielding(arg.lines))])
    /\ ret.firstUserMessage # Null =>
         /\ IsString(ret.firstUserMessage)
         /\ ret.firstUserMessage.v # <<>>
         /\ Len(ret.firstUserMessage.v) <= PREVIEW_LENGTH
         /\ \A i \in 1..Len(ret.firstUserMessage.v) :
              ret.firstUserMessage.v[i] \notin {"\n", "\r", "\t"}

\* The chunks of a list content give the preview 'a b c'; the image chunk
\* and the null entry give nothing.
C25_Witness ==
  /\ Extracted
  /\ Len(arg.lines) = 3
  /\ Yield(arg.lines[1]) = Null
  /\ Prop(arg.lines[1], "type_") = ResponseItemType
  /\ Prop(Prop(arg.lines[1], "payload"), "role") = UserType
  /\ ret.firstUserMessage = Str(<<"a", " ", "b", " ", "c">>)
  /\ Yield(arg.lines[3]) = Str(Repeat("x", PREVIEW_LENGTH))

\* ------------------------------------------------------------------------
\* findJsonlFiles: the walk of a directory tree
\* ------------------------------------------------------------------------

\* Deepest nesting of directories under the root.
MaxDepth == 2

\* What the filesystem holds at a path: a directory with its entries in
\* readdirSync order (which readdirSync may refuse to list), a file, an
\* entry statSync throws on, or nothing.
DirNode(listable, items) ==
  [kind |-> "dir", listable |-> listable, items |-> items]

FileNode == [kind |-> "file"]

BrokenNode == [kind |-> "broken"]

MissingNode == [kind |-> "missing"]

Entry(name, node) == [name |-> name, node |-> node]

JsonlSuffix == <<".", "j", "s", "o", "n", "l">>

\* String.prototype.endsWith
EndsWith(s, suffix) ==
  /\ Len(s) >= Len(suffix)
  /\ SubSeq(s, Len(s) - Len(suffix) + 1, Len(s)) = suffix

\* path.join(current, item) for a plain entry name.
PathJoin(current, item) == current \o <<"/">> \o item

\* The entries of a directory that are not directories.
LeafEntries ==
  { <<>>,
    << Entry(<<"a">> \o JsonlSuffix, FileNode) >>,
    << Entry(<<"b", ".", "t", "x", "t">>, FileNode),
       Entry(<<"c">> \o JsonlSuffix, BrokenNode),
       Entry(<<"a">> \o JsonlSuffix, FileNode) >> }

\* A directory readdirSync throws on, whatever it holds.
Unlistable == DirNode(FALSE, << Entry(<<"a">> \o JsonlSuffix, FileNode) >>)

\* The directories nested at most depth deep: a directory named 'e' with
\* no directory in it and a directory named 'd.jsonl', each absent,
\* refusing to be listed, or listed.
RECURSIVE Directories(_)
Directories(depth) ==
  IF depth = 0
  THEN { DirNode(TRUE, leaves) : leaves \in LeafEntries }
  ELSE { DirNode(TRUE, e \o d \o leaves) :
           leaves \in LeafEntries,
           e \in {<<>>} \cup
                 { << Entry(<<"e">>, node) >> :
                     node \in {Unlistable} \cup Directories(0) },
           d \in {<<>>} \cup
                 { << Entry(<<"d">> \o JsonlSuffix, node) >> :
                     node \in {Unlistable} \cup Directories(depth - 1) } }

RootDir == <<"r">>

\* The root is missing, a file, a directory that refuses to be listed, or a
\* directory tree.
InitScan ==
  /\ Quiescent
  /\ arg \in
       { [source |-> "scan", rootDir |-> RootDir, root |-> root] :
           root \in {MissingNode, FileNode, Unlistable}
                      \cup Directories(MaxDepth) }
  /\ ret = NoCall

\* Mutant of Lists: every directory can be listed.
Lists_Any(node) == node.kind = "dir"

\* fs.readdirSync(current) returns, rather than throws.
Lists(node) == node.kind = "dir" /\ node.listable

\* The entries of a listed directory under their full paths, in order.
FullPaths(current, node) ==
  [k \in 1..Len(node.items) |->
     [path |-> PathJoin(current, node.items[k].name),
      name |-> node.items[k].name,
      node |-> node.items[k].node]]

\* findJsonlFiles up to its loop: a missing root returns at once.
ScanStart ==
  /\ ret = NoCall
  /\ arg.source = "scan"
  /\ ret' = IF arg.root = MissingNode
            THEN [type |-> "scan", pc |-> "returned",
                  stack |-> <<>>, files |-> <<>>]
            ELSE [type |-> "scan", pc |-> "walking",
                  stack |-> << [path |-> arg.rootDir, node |-> arg.root] >>,
                  files |-> <<>>]
  /\ UNCHANGED <<engine, arg>>

\* One pass of the while loop: the directory on top of the stack is
\* popped and, if it can be listed, its directories are pushed and its
\* .jsonl files appended.
ScanDirectory ==
  /\ ret # NoCall
  /\ ret.type = "scan"
  /\ ret.pc = "walking"
  /\ ret.stack # <<>>
  /\ LET current == ret.stack[Len(ret.stack)]
         rest == SubSeq(ret.stack, 1, Len(ret.stack) - 1)
         items == IF Lists(current.node)
                  THEN FullPaths(current.path, current.node) ELSE <<>>
         directories == SelectSeq(items, LAMBDA item : item.node.kind = "dir")
         jsonl == SelectSeq(items,
                    LAMBDA item : /\ item.node.kind = "file"
                                  /\ EndsWith(item.name, JsonlSuffix))
     IN  ret' = [ret EXCEPT
                   !.stack = rest \o [k \in 1..Len(directories) |->
                                        [path |-> directories[k].path,
                                         node |-> directories[k].node]],
                   !.files = @ \o [k \in 1..Len(jsonl) |-> jsonl[k].path]]
  /\ UNCHANGED <<engine, arg>>

\* The stack is empty: the files are returned.
ScanReturn ==
  /\ ret # NoCall
  /\ ret.type = "scan"
  /\ ret.pc = "walking"
  /\ ret.stack = <<>>
  /\ ret' = [ret EXCEPT !.pc = "returned"]
  /\ UNCHANGED <<engine, arg>>

NextScan == ScanStart \/ ScanDirectory \/ ScanReturn

\* The function is synchronous: once called, it keeps running.
SpecScan == InitScan /\ [][NextScan]_vars /\ WF_vars(NextScan)

ScanReturned == ret # NoCall /\ ret.pc = "returned"

\* The .jsonl files at any depth under a node, in directories that can be
\* listed.
RECURSIVE JsonlUnder(_, _)
JsonlUnder(current, node) ==
  IF node.kind # "dir" \/ ~node.listable THEN {}
  ELSE UNION
         { IF node.items[k].node.kind = "file"
           THEN IF EndsWith(node.items[k].name, JsonlSuffix)
                THEN { PathJoin(current, node.items[k].name) } ELSE {}
           ELSE IF node.items[k].node.kind = "dir"
           THEN JsonlUnder(PathJoin(current, node.items[k].name),
                           node.items[k].node)
           ELSE {} : k \in 1..Len(node.items) }

\* C26: findJsonlFiles returns, whatever the tree; what it returns are the
\* files named *.jsonl at any depth under the root in directories that can
\* be listed, each once; directories that cannot be listed and entries
\* that cannot be stat'ed are passed over, and a missing root gives the
\* empty list.
C26_ScanTerminatesExact ==
  /\ <>ScanReturned
  /\ [](ScanReturned =>
          /\ { ret.files[k] : k \in 1..Len(ret.files) }
               = JsonlUnder(arg.rootDir, arg.root)
          /\ \A j, k \in 1..Len(ret.files) :
               ret.files[j] = ret.files[k] => j = k
          /\ arg.root = MissingNode => ret.files = <<>>)

\* A walk that met a directory it could not list and an entry it could
\* not stat, and still found the files two directories down.
C26_Witness ==
  /\ ScanReturned
  /\ Len(ret.files) >= 3
  /\ PathJoin(PathJoin(PathJoin(RootDir, <<"d">> \o JsonlSuffix),
                       <<"d">> \o JsonlSuffix), <<"a">> \o JsonlSuffix)
       \in { ret.files[k] : k \in 1..Len(ret.files) }
  /\ \E k \in 1..Len(arg.root.items) :
       /\ arg.root.items[k].name = <<"e">>
       /\ ~arg.root.items[k].node.listable
  /\ \E k \in 1..Len(arg.root.items) :
       arg.root.items[k].node = BrokenNode

\* ------------------------------------------------------------------------
\* One invocation whose request names a source more than once
\* ------------------------------------------------------------------------

SourcesRepeatedInputs ==
  { Undefined,
    Arr(<<"codex">>),
    Arr(<<"claude", "claude">>),
    Arr(<<"codex", "claude", "codex">>) }

BodySourcesInputs ==
  [sources : SourcesRepeatedInputs, dryRun : DryRunInputs,
   force : ForceInputs, maxFiles : {Undefined}]

\* A store holding the last codex transcript under a project that is not
\* the directory the transcript now names, and under the other source.
ElsewhereStore ==
  recordConversation(
    recordProject(EmptyStore,
      [project_path |-> PathC, project_name |-> <<"c">>,
       claude_dir |-> ClaudeDir]),
    [jsonl_file |-> "~/.codex/sessions/2025/5.jsonl", project_path |-> PathC,
     session_id |-> <<"s", "0">>, message_count |-> 1])

InitSources ==
  /\ fs \in FsInputs
  /\ registry \in RegistryInputs
  /\ live \in LiveInputs
  /\ store \in StoreInputs \cup {ElsewhereStore}
  /\ AtRest

NextSources ==
  \/ \E c \in CallerInputs, b \in BodySourcesInputs : InvokeOnce(c, b)
  \/ FetchResponds
  \/ RecordSessionReturns
  \/ GetProjectsReturns
  \/ GetConversationsReturns
  \/ RecordProjectReturns
  \/ RecordConversationReturns
  \/ StoreFails

SpecSources == InitSources /\ [][NextSources]_vars

\* C27: in one invocation no two discovered conversations have the same
\* transcript path, however often the request names a source; no
\* transcript path is handed to recordConversation twice; and a matched
\* conversation counts as existing exactly when the store held its
\* transcript path, under whatever project.
C27_TranscriptPathUnique ==
  /\ \A i, j \in CallsOf("recordConversation") :
       calls[i].id = calls[j].id => i = j
  /\ Done /\ faults = 0 =>
       LET d == discoverConversations(SourcesOf(request), fs)
       IN  /\ \A i, j \in 1..Len(d) : d[i].jsonlFile = d[j].jsonlFile => i = j
           /\ report.total_discovered
                = Cardinality({ d[i].jsonlFile : i \in 1..Len(d) })
           /\ report.total_matched = Cardinality(MatchedFiles)
           /\ Elements(report.existing_examples)
                = MatchedFiles \cap StoredFiles(storeAtStart)
           /\ Elements(report.inserted_examples)
                = MatchedFiles \ StoredFiles(storeAtStart)
           /\ report.total_existing
                = Cardinality(MatchedFiles \cap StoredFiles(storeAtStart))

C27_Witness ==
  /\ Done
  /\ faults = 0
  /\ request.sources = Arr(<<"codex", "claude", "codex">>)
  /\ report.mode = "apply"
  /\ report.total_discovered = 3
  /\ "~/.codex/sessions/2025/5.jsonl" \in Elements(report.existing_examples)
  /\ store.conversations[1].val.project_path = PathC
  /\ Cardinality(CallsOf("recordConversation")) = 2

\* ------------------------------------------------------------------------
\* Two apply invocations for the same agent at the same time
\* ------------------------------------------------------------------------

\* Transcripts of both sources that name the same working directory, and
\* one that names another.
SharedFs ==
  [claude |-> << File("~/.claude/projects/p/1.jsonl", ClaudeDir, TRUE,
                      Str(PathA), Str(<<"s", "1">>), 1) >>,
   codex  |-> << File("~/.codex/sessions/2025/5.jsonl", CodexDir, TRUE,
                      Str(PathA), Str(<<"s", "5">>), 3),
                 File("~/.codex/sessions/2025/6.jsonl", CodexDir, TRUE,
                      Str(PathB), Null, 2) >>]

\* A store that holds the claude transcript already.
SharedStore ==
  recordConversation(
    recordProject(EmptyStore,
      [project_path |-> PathA, project_name |-> <<"a">>,
       claude_dir |-> ClaudeDir]),
    [jsonl_file |-> "~/.claude/projects/p/1.jsonl", project_path |-> PathA,
     session_id |-> <<"s", "1">>, message_count |-> 1])

BodyApplyInputs ==
  [sources : {Undefined}, dryRun : {Bool(FALSE)}, force : ForceInputs,
   maxFiles : {Undefined, Num(Scale)}]

InitConcurrent ==
  /\ fs = SharedFs
  /\ registry \in RegistryInputs
  /\ live \in LiveInputs
  /\ store \in {EmptyStore, SharedStore}
  /\ AtRest

\* An invocation that is not running: what it will find in its locals when
\* it runs again.
Parked ==
  [type |-> "parked", pc |-> pc, request |-> request, report |-> report,
   loc |-> loc, calls |-> calls, response |-> response]

\* The single invocation the two are compared with.
InvokeAlone(c, b) == runs = 0 /\ Invoke(c, b)

\* The single invocation has returned.  The store is put back as it was
\* and the same request is made twice: both invocations run up to the
\* session-inventory request, and one of them is the one this state
\* follows.
InvokePair ==
  /\ pc = "done"
  /\ runs = 1
  /\ faults = 0
  /\ ret = NoCall
  /\ prev' = [pc |-> pc, request |-> request, report |-> report,
              storeAtStart |-> storeAtStart, calls |-> calls,
              store |-> store, response |-> response]
  /\ store' = storeAtStart
  /\ report' = emptyReport(AgentId, DryRunOf(request), MaxFilesOf(request))
  /\ loc' = [EmptyLoc EXCEPT
               !.workingDirectories = RegistryDirectories(registry)]
  /\ pc' = "fetch"
  /\ runs' = runs + 1
  /\ calls' = <<>>
  /\ response' = NoResponse
  /\ ret' = [type |-> "parked", pc |-> "fetch", request |-> request,
             report |-> emptyReport(AgentId, DryRunOf(request),
                                    MaxFilesOf(request)),
             loc |-> [EmptyLoc EXCEPT
                        !.workingDirectories = RegistryDirectories(registry)],
             calls |-> <<>>, response |-> NoResponse]
  /\ UNCHANGED <<fs, registry, live, arg, faults, caller, body, request,
                 storeAtStart>>

\* The event loop resumes the other invocation: at an await, either of the
\* two may be the one whose promise settles next.
Switch ==
  /\ ret # NoCall
  /\ ret.type = "parked"
  /\ ret.pc \notin {"done", "rejected"}
  /\ pc' = ret.pc
  /\ request' = ret.request
  /\ report' = ret.report
  /\ loc' = ret.loc
  /\ calls' = ret.calls
  /\ response' = ret.response
  /\ ret' = Parked
  /\ UNCHANGED <<fs, registry, live, arg, store, faults, runs, caller, body,
                 storeAtStart, prev>>

NextConcurrent ==
  \/ \E c \in CallerInputs, b \in BodyApplyInputs : InvokeAlone(c, b)
  \/ InvokePair
  \/ Switch
  \/ FetchResponds
  \/ RecordSessionReturns
  \/ GetProjectsReturns
  \/ GetConversationsReturns
  \/ RecordProjectReturns
  \/ RecordConversationReturns
  \/ StoreFails

SpecConcurrent == InitConcurrent /\ [][NextConcurrent]_vars

\* Both invocations of the pair have returned, no store operation having
\* failed.
PairDone ==
  /\ runs = 2
  /\ faults = 0
  /\ pc = "done"
  /\ ret # NoCall
  /\ ret.pc = "done"

\* C28: when two apply invocations for the same agent, interleaved at
\* their awaits in any way, have both returned, the store is the one a
\* single apply run leaves, with one conversation record for each matched
\* transcript the store did not hold.
C28_ConcurrentRunsLeaveSameStore ==
  PairDone =>
    /\ store = prev.store
    /\ \A f \in MatchedFiles \ StoredFiles(storeAtStart) :
         Cardinality({ i \in 1..Len(store.conversations) :
                         store.conversations[i].key = f }) = 1
    /\ StoredFiles(store) = StoredFiles(storeAtStart) \cup MatchedFiles

\* Both reports count the same transcript as inserted.
C28_Witness ==
  /\ PairDone
  /\ report.total_inserted = 2
  /\ ret.report.total_inserted > 0
  /\ Elements(ret.report.inserted_examples)
       \cap Elements(report.inserted_examples) # {}
  /\ ret.report.total_inserted < report.total_inserted
  /\ Len(store.conversations) = 3

\* ------------------------------------------------------------------------
\* An apply run that fails in a write, and the run after it
\* ------------------------------------------------------------------------

InitRerun ==
  /\ fs \in FsInputs \cup {SharedFs}
  /\ registry \in RegistryInputs
  /\ live \in LiveInputs
  /\ store \in {EmptyStore, SharedStore}
  /\ AtRest

\* The run that never fails, which the others are compared with.
InvokeUnfailing(c, b) == runs = 0 /\ Invoke(c, b)

\* The locals of an invocation that starts.
Started ==
  /\ report' = emptyReport(AgentId, DryRunOf(request), MaxFilesOf(request))
  /\ loc' = [EmptyLoc EXCEPT
               !.workingDirectories = RegistryDirectories(registry)]
  /\ pc' = "fetch"
  /\ runs' = runs + 1
  /\ calls' = <<>>
  /\ response' = NoResponse

\* The unfailing run has returned; the store it left is kept aside, the
\* store is put back as it was, and the same request is made again.
InvokeFailing ==
  /\ pc = "done"
  /\ runs = 1
  /\ faults = 0
  /\ ret = NoCall
  /\ ret' = [type |-> "reference", store |-> store, report |-> report]
  /\ store' = storeAtStart
  /\ Started
  /\ UNCHANGED <<fs, registry, live, arg, faults, caller, body, request,
                 storeAtStart, prev>>

\* The second run has rejected or returned; the same request is made on
\* the store it left.
InvokeAgain ==
  /\ pc \in {"done", "rejected"}
  /\ runs = 2
  /\ prev' = [pc |-> pc, request |-> request, report |-> report,
              storeAtStart |-> storeAtStart, calls |-> calls,
              store |-> store, loc |-> loc]
  /\ storeAtStart' = store
  /\ Started
  /\ UNCHANGED <<env, store, faults, caller, body, request>>

NextRerun ==
  \/ \E c \in CallerInputs, b \in BodyApplyInputs : InvokeUnfailing(c, b)
  \/ InvokeFailing
  \/ InvokeAgain
  \/ FetchResponds
  \/ RecordSessionReturns
  \/ GetProjectsReturns
  \/ GetConversationsReturns
  \/ RecordProjectReturns
  \/ RecordConversationReturns
  \/ StoreFails

SpecRerun == InitRerun /\ [][NextRerun]_vars

\* The invocation whose locals are l and whose writes were issued rejected
\* in recordProject or recordConversation.
FailedInWrite(state, issued) ==
  /\ state = "rejected"
  /\ issued # <<>>
  /\ issued[Len(issued)].op \in {"recordProject", "recordConversation"}

\* The matched conversations before the one at index k that the store db
\* did not hold.
NewBefore(l, k, db) ==
  { l.matched[i].jsonlFile :
      i \in { j \in 1..(k - 1) :
                l.matched[j].jsonlFile \notin StoredFiles(db) } }

\* C29: an apply run that rejects in recordProject or recordConversation
\* has written the conversation records of the new matched conversations
\* before the one it failed on, and no other; an apply run that follows
\* it and returns counts those as existing and the other new ones as
\* inserted, and leaves the store a run that never failed leaves.
C29_PartialFailureThenRerun ==
  /\ runs = 2 /\ FailedInWrite(pc, calls) =>
       StoredFiles(store) \ StoredFiles(storeAtStart)
         = NewBefore(loc, loc.matchIdx, storeAtStart)
  /\ runs = 3 /\ Done /\ FailedInWrite(prev.pc, prev.calls) =>
       /\ Elements(report.existing_examples)
            = (MatchedFiles \cap StoredFiles(prev.storeAtStart))
                \cup NewBefore(prev.loc, prev.loc.matchIdx, prev.storeAtStart)
       /\ Elements(report.inserted_examples)
            = (MatchedFiles \ StoredFiles(prev.storeAtStart))
                \ NewBefore(prev.loc, prev.loc.matchIdx, prev.storeAtStart)
       /\ report.total_inserted = Len(report.inserted_examples)
       /\ report.total_existing = Len(report.existing_examples)
       /\ store = ret.store

\* The second of three new conversations failed in recordConversation.
C29_Witness ==
  /\ runs = 3
  /\ Done
  /\ FailedInWrite(prev.pc, prev.calls)
  /\ prev.calls[Len(prev.calls)].op = "recordConversation"
  /\ Len(report.existing_examples) = 1
  /\ Len(report.inserted_examples) = 2
  /\ prev.storeAtStart = EmptyStore

\* ------------------------------------------------------------------------
\* POST /api/agents/:id/memory: the pre-check before the engine
\* ------------------------------------------------------------------------

\* MemoryInitRequest as the route may receive it: the flags absent, true,
\* false, or a string.
MemoryBodyInputs ==
  [populateFromSessions : {Undefined, Bool(TRUE), Bool(FALSE)},
   force : {Undefined, Bool(TRUE), Bool(FALSE), Str(<<"y">>)},
   dryRun : {Undefined, Bool(TRUE), Bool(FALSE), Str(<<"t", "r", "u", "e">>)},
   sources : {Undefined},
   maxFiles : {Undefined}]

InitMemory ==
  /\ fs \in FsInputs
  /\ registry \in RegistryInputs
  /\ live \in LiveInputs
  /\ store \in StoreInputs
  /\ faults = 0
  /\ runs = 0
  /\ pc = "idle"
  /\ caller = "memory"
  /\ body = EmptyRequest
  /\ request = EmptyRequest
  /\ report = emptyReport(AgentId, FALSE, DefaultMaxFiles * Scale)
  /\ loc = EmptyLoc
  /\ calls = <<>>
  /\ storeAtStart = store
  /\ response = NoResponse
  /\ prev = [pc |-> "none", request |-> EmptyRequest,
             report |-> emptyReport(AgentId, FALSE, DefaultMaxFiles * Scale),
             storeAtStart |-> store]
  /\ arg \in { [source |-> "memory", body |-> b] : b \in MemoryBodyInputs }
  /\ ret = NoCall

\* The request the route hands to the engine (route.ts lines 163-168).
MemoryRequest(b) ==
  [dryRun |-> Bool(b.dryRun = Bool(TRUE)),
   force |-> Bool(b.force = Bool(TRUE)),
   sources |-> b.sources,
   maxFiles |-> b.maxFiles]

\* Mutant of NeedsPrecheck: a dry-run is pre-checked too.
NeedsPrecheck_DryRunToo(b) == ~Truthy(b.force)

\* !body.force && !dryRun
NeedsPrecheck(b) == ~Truthy(b.force) /\ b.dryRun # Bool(TRUE)

\* The route calls backfillAgentMemory, which runs up to the
\* session-inventory request.
EngineInvoked(req) ==
  /\ request' = req
  /\ body' = req
  /\ report' = emptyReport(AgentId, DryRunOf(req), MaxFilesOf(req))
  /\ loc' = [EmptyLoc EXCEPT
               !.workingDirectories = RegistryDirectories(registry)]
  /\ pc' = "fetch"
  /\ runs' = runs + 1
  /\ calls' = <<>>
  /\ storeAtStart' = store
  /\ response' = NoResponse

\* The route answers without calling the engine.
Answers(answer) ==
  /\ pc' = "answered"
  /\ response' = answer
  /\ UNCHANGED <<runs, body, request, report, loc, calls, storeAtStart>>

\* The route receives the request and runs up to its first store call:
\* the answer without population, getProjects, or the engine.
PostMemory ==
  /\ pc = "idle"
  /\ runs = 0
  /\ arg # NoCall
  /\ arg.source = "memory"
  /\ IF ~Truthy(arg.body.populateFromSessions)
     THEN Answers([status |-> 200, initialized |-> TRUE])
     ELSE IF NeedsPrecheck(arg.body)
     THEN /\ pc' = "precheck"
          /\ UNCHANGED <<runs, body, request, report, loc, calls,
                         storeAtStart, response>>
     ELSE EngineInvoked(MemoryRequest(arg.body))
  /\ UNCHANGED <<env, store, faults, caller, prev>>

\* getProjects returns to the route: a populated store ends the request,
\* an empty one lets the engine be called.
PrecheckReturns ==
  /\ pc = "precheck"
  /\ IF getProjects(store) # <<>>
     THEN Answers([status |-> 200, skipped_population |-> TRUE])
     ELSE EngineInvoked(MemoryRequest(arg.body))
  /\ UNCHANGED <<env, store, faults, caller, prev>>

\* getProjects throws in the route: the catch answers 500.
PrecheckFails ==
  /\ pc = "precheck"
  /\ faults < MaxFaults
  /\ faults' = faults + 1
  /\ pc' = "rejected"
  /\ response' = Rejected
  /\ UNCHANGED <<env, store, runs, caller, body, request, report, loc, calls,
                 storeAtStart, prev>>

NextMemory ==
  \/ PostMemory
  \/ PrecheckReturns
  \/ PrecheckFails
  \/ FetchResponds
  \/ RecordSessionReturns
  \/ GetProjectsReturns
  \/ GetConversationsReturns
  \/ RecordProjectReturns
  \/ RecordConversationReturns
  \/ StoreFails

SpecMemory == InitMemory /\ [][NextMemory]_vars

\* The body asks for population.
Populate == Truthy(arg.body.populateFromSessions)

ForceSet == Truthy(arg.body.force)

DryRunTrue == arg.body.dryRun = Bool(TRUE)

\* The store listed a project when the request came in.
Populated == storeAtStart.projects # <<>>

\* C30: for a request that asks for population, the route answers
\* skipped_population without calling the engine exactly when force is not
\* set, dryRun is not true and the store lists a project; with force set
\* or dryRun true the engine is called; and the engine runs in apply mode
\* through this route only with force set or a store without project.
C30_PrecheckBeforeEngine ==
  /\ runs > 0 => Populate /\ ~(~ForceSet /\ ~DryRunTrue /\ Populated)
  /\ runs > 0 /\ report.mode = "apply" => ForceSet \/ ~Populated
  /\ Populate /\ response # NoResponse /\ faults = 0 =>
       /\ runs = 0 <=> (~ForceSet /\ ~DryRunTrue /\ Populated)
       /\ runs = 0 <=> "skipped_population" \in DOMAIN response
       /\ ForceSet \/ DryRunTrue => runs = 1
  /\ Populate /\ (ForceSet \/ DryRunTrue) => pc = "idle" \/ runs = 1

C30_Witness ==
  /\ response # NoResponse
  /\ "skipped_population" \in DOMAIN response
  /\ arg.body.dryRun = Str(<<"t", "r", "u", "e">>)
  /\ arg.body.force = Bool(FALSE)

====
